---- MODULE Spec2Model ----
(***************************************************************************)
(* Hazard fusion and risk-zone engine of ltny24/backend.                   *)
(*                                                                         *)
(*   - the processing pass (process_data_integrated.py) that rebuilds the  *)
(*     snapshot file processed_risk_zones.json, and the readers of that    *)
(*     file (routers/alerts.py, routers/map_risk.py);                      *)
(*   - the hazard resolver (worker/data_collector.py);                     *)
(*   - the alert conversion, ranking and query surface (routers/alerts.py).*)
(*                                                                         *)
(* Units.  Latitudes and longitudes are integers in 1e-4 degree.  True     *)
(* distances are integers in metres; the reported distance_km is an        *)
(* integer number of 0.1 km.  Times are integer hours.                     *)
(***************************************************************************)
EXTENDS Integers, Sequences, FiniteSets, TLC

VARIABLES
    \* ---- the processing pass and the snapshot file ----
    file,                 \* processed_risk_zones.json: [exists, chunks]
    pc,                   \* per pass thread: where run_processing_pipeline is
    rows,                 \* per pass thread: rows = cur.fetchall()
    features_collection,  \* per pass thread: the list of features built
    offset,               \* per pass thread: chunks of the dump written so far
    before,               \* history: the file as it was when the pass began
    published,            \* history: output of the last pass that completed
    publishedRows,        \* history: rows fetched by that pass
    lastRead,             \* what the last reader request observed
    \* ---- the hazard resolver ----
    labels,               \* the five labels of one reading
    resolved,             \* what overall_hazard_prediction returned for them
    \* ---- the alert queries ----
    snapshot,             \* the features load_risk_data returns
    request,              \* the query being served
    response,             \* what the query returned
    \* ---- calls of the functions ----
    call,                 \* the function called and its arguments
    result,               \* what the call returned
    \* ---- the forecast endpoint ----
    clock,                \* time.time(), in ticks of SECONDS_PER_TICK
    forecast_cache,       \* _forecast_cache: key -> (timestamp, dataframe)
    lastForecast,         \* the last forecast request and what it was served
    \* ---- the collector ----
    collector_pc,         \* where main is: "begin", "loop" or "crashed"
    loc_idx,              \* locations of the cycle processed so far
    csv_buffer,           \* csv_buffer of the cycle
    db_buffer,            \* db_buffer of the cycle
    fetched,              \* per location processed: which fetches succeeded
    csv_rows_saved,       \* rows the last save_to_flat_csv appended
    db_events_written,    \* events the last write_events_to_database got
    \* ---- the WebSocket hub ----
    sockets,              \* per WebSocket: the user_id it is open for
    active_connections,   \* manager.active_connections: user_id -> WebSocket
    reached               \* history: the WebSockets the last broadcast sent to

pipeVars == <<file, pc, rows, features_collection, offset, before,
              published, publishedRows, lastRead>>

resolverVars == <<labels, resolved>>

alertVars == <<snapshot, request, response>>

callVars == <<call, result>>

forecastVars == <<clock, forecast_cache, lastForecast>>

collectorVars ==
    <<collector_pc, loc_idx, csv_buffer, db_buffer, fetched, csv_rows_saved,
      db_events_written>>

socketVars == <<sockets, active_connections, reached>>

vars ==
    <<pipeVars, resolverVars, alertVars, callVars, forecastVars, collectorVars,
      socketVars>>

-----------------------------------------------------------------------------
(* Generic helpers                                                         *)

Range(s) == {s[i] : i \in 1..Len(s)}

\* Python's s[:n] for n >= 0
Take(s, n) == SubSeq(s, 1, IF n < Len(s) THEN n ELSE Len(s))

-----------------------------------------------------------------------------
(* The events table read by the processing pass                            *)

\* The hour at which the requests and passes of the model take place.
CurrentHour == 48

\* SQL: event_time >= NOW() - INTERVAL '24 HOURS'
QUERY_WINDOW_HOURS == 24

\* SQL: LIMIT 100
QUERY_LIMIT == 100

NoLabels ==
    [rain_label |-> "no", wind_label |-> "no", storm_label |-> "no",
     flood_label |-> "no", earthquake_label |-> "no"]

\* Rows the collector can have inserted into events: two readings of the
\* same location from two collection cycles, a reading of another location,
\* a reading older than the window and a GDACS event of another type.
Events ==
    { [id |-> 1, event_type |-> "weather_analytics",
       title |-> [tag |-> "Flood", loc |-> "Hanoi"],
       event_time |-> CurrentHour - 1, lat |-> 210285, lon |-> 1058542,
       raw_data |-> [NoLabels EXCEPT !.flood_label = "high"],
       predicted |-> "Flood"],
      [id |-> 2, event_type |-> "weather_analytics",
       title |-> [tag |-> "Flood", loc |-> "Hanoi"],
       event_time |-> CurrentHour - 3, lat |-> 210285, lon |-> 1058542,
       raw_data |-> [NoLabels EXCEPT !.flood_label = "mid"],
       predicted |-> "Flood"],
      [id |-> 3, event_type |-> "weather_analytics",
       title |-> [tag |-> "No", loc |-> "Da Nang"],
       event_time |-> CurrentHour - 2, lat |-> 160544, lon |-> 1082022,
       raw_data |-> NoLabels,
       predicted |-> "No"],
      [id |-> 4, event_type |-> "weather_analytics",
       title |-> [tag |-> "Wind", loc |-> "Hue"],
       event_time |-> CurrentHour - 30, lat |-> 164637, lon |-> 1075909,
       raw_data |-> [NoLabels EXCEPT !.wind_label = "mid-high"],
       predicted |-> "Wind"],
      [id |-> 5, event_type |-> "disaster",
       title |-> [tag |-> "", loc |-> "Green earthquake alert"],
       event_time |-> CurrentHour - 1, lat |-> 210000, lon |-> 1050000,
       raw_data |-> NoLabels,
       predicted |-> "Unknown"] }

\* ORDER BY event_time DESC: the rows of a set, latest first.
RECURSIVE OrderByTimeDesc(_)
OrderByTimeDesc(S) ==
    IF S = {} THEN <<>>
    ELSE LET e == CHOOSE x \in S : \A y \in S : y.event_time <= x.event_time
         IN  <<e>> \o OrderByTimeDesc(S \ {e})

\* The SELECT of run_processing_pipeline on a table tbl at hour now.
SelectWeatherEvents(tbl, now) ==
    Take(OrderByTimeDesc({e \in tbl : /\ e.event_type = "weather_analytics"
                                      /\ e.event_time >= now - QUERY_WINDOW_HOURS}),
         QUERY_LIMIT)

-----------------------------------------------------------------------------
(* Building one feature (process_data_integrated.py, lines 91-140)         *)

\* str.capitalize() on the label strings and the hazard kinds
Capitalize(l) ==
    CASE l = "no" -> "No"
      [] l = "low" -> "Low"
      [] l = "mid" -> "Mid"
      [] l = "mid-high" -> "Mid-high"
      [] l = "high" -> "High"
      [] l = "wind" -> "Wind"
      [] l = "rain" -> "Rain"
      [] l = "storm" -> "Storm"
      [] l = "flood" -> "Flood"
      [] l = "earthquake" -> "Earthquake"
      [] OTHER -> l

\* raw_data.get(f"{predicted_hazard.lower()}_label", 'low')
LabelOf(raw_data, predicted_hazard) ==
    CASE predicted_hazard = "Rain" -> raw_data.rain_label
      [] predicted_hazard = "Wind" -> raw_data.wind_label
      [] predicted_hazard = "Storm" -> raw_data.storm_label
      [] predicted_hazard = "Flood" -> raw_data.flood_label
      [] predicted_hazard = "Earthquake" -> raw_data.earthquake_label
      [] OTHER -> "low"

RiskLevelOf(raw_data, predicted_hazard) ==
    IF predicted_hazard \in {"No", "Unknown"} THEN "Info"
    ELSE Capitalize(LabelOf(raw_data, predicted_hazard))

BuildFeature(row) ==
    [kind |-> "feature",
     id |-> row.id,
     name |-> row.title,
     hazard_type |-> row.predicted,
     risk_level |-> RiskLevelOf(row.raw_data, row.predicted),
     time |-> row.event_time,
     center |-> <<row.lat, row.lon>>]

-----------------------------------------------------------------------------
(* The snapshot file as a sequence of chunks.  json.dump streams the text  *)
(* of the collection to the file; the text is cut here into one chunk per  *)
(* feature followed by the chunk that closes the document.                 *)

NoFeature ==
    [kind |-> "hole", id |-> 0, name |-> [tag |-> "", loc |-> ""],
     hazard_type |-> "", risk_level |-> "", time |-> 0, center |-> <<0, 0>>]

EndChunk == [NoFeature EXCEPT !.kind = "end"]

\* The text json.dump writes for a list of features
DumpText(features) == features \o <<EndChunk>>

\* write() of one chunk at position pos (0-based) of a file opened with 'w'
WriteAt(chunks, pos, c) ==
    IF pos < Len(chunks) THEN [chunks EXCEPT ![pos + 1] = c]
    ELSE chunks \o [i \in 1..(pos - Len(chunks)) |-> NoFeature] \o <<c>>

\* json.load succeeds exactly on a complete document
IsCompleteDump(chunks) ==
    /\ Len(chunks) >= 1
    /\ chunks[Len(chunks)] = EndChunk
    /\ \A i \in 1..(Len(chunks) - 1) : chunks[i].kind = "feature"

ParsedFeatures(chunks) == SubSeq(chunks, 1, Len(chunks) - 1)

\* load_risk_data (alerts.py): the features, or [] when the file is missing
\* or cannot be parsed
load_risk_data(f) ==
    IF ~f.exists THEN <<>>
    ELSE IF IsCompleteDump(f.chunks) THEN ParsedFeatures(f.chunks)
    ELSE <<>>

\* get_risk_zones (map_risk.py): the response to GET /zones
get_risk_zones(f) ==
    IF ~f.exists THEN [status |-> "not_ready", features |-> <<>>]
    ELSE IF IsCompleteDump(f.chunks)
         THEN [status |-> "ok", features |-> ParsedFeatures(f.chunks)]
    ELSE [status |-> "error", features |-> <<>>]

-----------------------------------------------------------------------------
(* The processing pass, one thread of the server's pool per trigger        *)

Passes == {"t1", "t2"}

Running == {"predictor", "connect", "query", "compute", "open", "write"}

\* The file before the first pass has created it.
NoFile == [exists |-> FALSE, chunks |-> <<>>]

\* No response is in flight.
NoRead == [ep |-> "none", status |-> "ok", features |-> <<>>, accept |-> {}]

PipeInit ==
    /\ file = NoFile
    /\ pc = [p \in Passes |-> "idle"]
    /\ rows = [p \in Passes |-> <<>>]
    /\ features_collection = [p \in Passes |-> <<>>]
    /\ offset = [p \in Passes |-> 0]
    /\ before = [p \in Passes |-> NoFile]
    /\ published = [any |-> FALSE, features |-> <<>>]
    /\ publishedRows = <<>>
    /\ lastRead = NoRead

\* A pass returns: the locals of the call go with its frame.
EndPass(p, how) ==
    /\ pc' = [pc EXCEPT ![p] = how]
    /\ rows' = [rows EXCEPT ![p] = <<>>]
    /\ features_collection' = [features_collection EXCEPT ![p] = <<>>]
    /\ offset' = [offset EXCEPT ![p] = 0]

\* A step of a pass that only moves it on to the next statement.
Goto(p, where) ==
    /\ pc' = [pc EXCEPT ![p] = where]
    /\ UNCHANGED <<rows, features_collection, offset>>

\* trigger_ai_processing, with the periodic trigger of the collector, when
\* it arrives while no pass is running: a new pass starts.
Trigger(p) ==
    /\ \A q \in Passes : pc[q] \notin Running
    /\ pc' = [q \in Passes |-> IF q = p THEN "predictor" ELSE "idle"]
    /\ before' = [q \in Passes |-> IF q = p THEN file ELSE NoFile]
    /\ lastRead' = NoRead
    /\ UNCHANGED <<file, rows, features_collection, offset, published,
                   publishedRows>>

\* trigger_ai_processing when it arrives while a pass is running: the new
\* pass is added as a background task all the same, and the server runs it
\* on another thread of its pool.
TriggerDuringPass(p) ==
    /\ pc[p] \notin Running
    /\ \E q \in Passes : pc[q] \in Running
    /\ pc' = [pc EXCEPT ![p] = "predictor"]
    /\ before' = [before EXCEPT ![p] = file]
    /\ lastRead' = NoRead
    /\ UNCHANGED <<file, rows, features_collection, offset, published,
                   publishedRows>>

\* lines 64-68: predictor = HazardPredictor(), or return
ConstructPredictor(p) ==
    /\ pc[p] = "predictor"
    /\ \/ Goto(p, "connect")
       \/ EndPass(p, "failed")
    /\ lastRead' = NoRead
    /\ UNCHANGED <<file, before, published, publishedRows>>

\* lines 70-71: conn = get_db_connection(); if not conn: return
Connect(p) ==
    /\ pc[p] = "connect"
    /\ \/ Goto(p, "query")
       \/ EndPass(p, "failed")
    /\ lastRead' = NoRead
    /\ UNCHANGED <<file, before, published, publishedRows>>

\* lines 76-89: the query, on whatever the table holds at that time, or an
\* exception
QueryRowsFrom(p, tables) ==
    /\ pc[p] = "query"
    /\ \/ \E tbl \in tables :
             /\ rows' = [rows EXCEPT ![p] = SelectWeatherEvents(tbl, CurrentHour)]
             /\ pc' = [pc EXCEPT ![p] = "compute"]
             /\ UNCHANGED <<features_collection, offset>>
       \/ EndPass(p, "failed")
    /\ lastRead' = NoRead
    /\ UNCHANGED <<file, before, published, publishedRows>>

QueryRows(p) == QueryRowsFrom(p, SUBSET Events)

\* The table before and after the first collection cycle that reads Hanoi
\* (row 1), when row 2 of the cycle after it is yet to come
CycleTables == {{e \in Events : e.id \notin {1, 2}}, {e \in Events : e.id # 2}}

\* lines 91-146: one feature per row, or an exception in some row
ComputeFeatures(p) ==
    /\ pc[p] = "compute"
    /\ \/ /\ features_collection' =
                [features_collection EXCEPT
                    ![p] = [i \in 1..Len(rows[p]) |-> BuildFeature(rows[p][i])]]
          /\ pc' = [pc EXCEPT ![p] = "open"]
          /\ UNCHANGED <<rows, offset>>
       \/ EndPass(p, "failed")
    /\ lastRead' = NoRead
    /\ UNCHANGED <<file, before, published, publishedRows>>

\* lines 148-149: makedirs and open(OUTPUT_FILE, 'w'), which truncates the
\* file at once; or an exception before the file is opened
OpenFile(p) ==
    /\ pc[p] = "open"
    /\ \/ /\ file' = [exists |-> TRUE, chunks |-> <<>>]
          /\ Goto(p, "write")
       \/ /\ EndPass(p, "failed")
          /\ UNCHANGED file
    /\ lastRead' = NoRead
    /\ UNCHANGED <<before, published, publishedRows>>

\* line 150: json.dump writes the next chunk; after the last one the file
\* is closed and the pass has completed
WriteChunk(p) ==
    /\ pc[p] = "write"
    /\ LET text == DumpText(features_collection[p])
       IN  /\ file' = [file EXCEPT
                          !.chunks = WriteAt(@, offset[p], text[offset[p] + 1])]
           /\ IF offset[p] + 1 = Len(text)
              THEN /\ EndPass(p, "completed")
                   /\ published' = [any |-> TRUE,
                                    features |-> features_collection[p]]
                   /\ publishedRows' = rows[p]
              ELSE /\ offset' = [offset EXCEPT ![p] = @ + 1]
                   /\ UNCHANGED <<pc, rows, features_collection, published,
                                  publishedRows>>
    /\ lastRead' = NoRead
    /\ UNCHANGED before

\* line 150 raising (an I/O error while the text is written): the with
\* statement closes the file as it is and the except clause ends the pass
WriteFails(p) ==
    /\ pc[p] = "write"
    /\ EndPass(p, "failed")
    /\ lastRead' = NoRead
    /\ UNCHANGED <<file, before, published, publishedRows>>

\* What a reader may rightly see: the previous complete snapshot, or the
\* complete new one of a pass that is writing.
Acceptable ==
    {published.features} \cup
    {features_collection[p] : p \in {q \in Passes : pc[q] = "write"}}

\* a request served through load_risk_data (national, nearby, all,
\* statistics)
ReadAlerts ==
    /\ lastRead' = [ep |-> "alerts", status |-> "ok",
                    features |-> load_risk_data(file), accept |-> Acceptable]
    /\ UNCHANGED <<file, pc, rows, features_collection, offset, before,
                   published, publishedRows>>

\* GET /zones
ReadZones ==
    /\ lastRead' = [ep |-> "zones", status |-> get_risk_zones(file).status,
                    features |-> get_risk_zones(file).features,
                    accept |-> Acceptable]
    /\ UNCHANGED <<file, pc, rows, features_collection, offset, before,
                   published, publishedRows>>

PipeNext ==
    \/ \E p \in Passes : Trigger(p)
    \/ \E p \in Passes : ConstructPredictor(p)
    \/ \E p \in Passes : Connect(p)
    \/ \E p \in Passes : QueryRows(p)
    \/ \E p \in Passes : ComputeFeatures(p)
    \/ \E p \in Passes : OpenFile(p)
    \/ \E p \in Passes : WriteChunk(p)
    \/ \E p \in Passes : WriteFails(p)
    \/ ReadAlerts
    \/ ReadZones

\* The pass and the file at rest, for the specifications of other parts.
PipeIdle == PipeInit

\* The passes when triggers arrive at any time, on the tables of one
\* collection cycle
OverlapNext ==
    \/ \E p \in Passes : Trigger(p)
    \/ \E p \in Passes : TriggerDuringPass(p)
    \/ \E p \in Passes : ConstructPredictor(p)
    \/ \E p \in Passes : Connect(p)
    \/ \E p \in Passes : QueryRowsFrom(p, CycleTables)
    \/ \E p \in Passes : ComputeFeatures(p)
    \/ \E p \in Passes : OpenFile(p)
    \/ \E p \in Passes : WriteChunk(p)
    \/ \E p \in Passes : WriteFails(p)

-----------------------------------------------------------------------------
(* The hazard resolver (data_collector.py, lines 45-46 and 114-121)        *)

HazardLabels == {"no", "low", "mid", "mid-high", "high"}

RISK_ORDER ==
    [l \in HazardLabels |->
        CASE l = "no" -> 0 [] l = "low" -> 1 [] l = "mid" -> 2
          [] l = "mid-high" -> 3 [] l = "high" -> 4]

HAZARD_PRIORITY == <<"wind", "rain", "storm", "flood", "earthquake">>

HazardKinds == Range(HAZARD_PRIORITY)

\* The loop of overall_hazard_prediction over HAZARD_PRIORITY[i..]: the pair
\* (best, best_score) after the loop, given the pair before it.
RECURSIVE ResolveLoop(_, _, _, _)
ResolveLoop(risks, i, best, best_score) ==
    IF i > Len(HAZARD_PRIORITY) THEN [best |-> best, best_score |-> best_score]
    ELSE LET hz == HAZARD_PRIORITY[i]
             score == RISK_ORDER[risks[hz]]
         IN  IF score >= 2 THEN ResolveLoop(risks, i + 1, hz, score)
             ELSE ResolveLoop(risks, i + 1, best, best_score)

\* A resolver that keeps the kind of the highest score instead.
RECURSIVE ResolveLoopHighest(_, _, _, _)
ResolveLoopHighest(risks, i, best, best_score) ==
    IF i > Len(HAZARD_PRIORITY) THEN [best |-> best, best_score |-> best_score]
    ELSE LET hz == HAZARD_PRIORITY[i]
             score == RISK_ORDER[risks[hz]]
         IN  IF score >= 2 /\ score > best_score
             THEN ResolveLoopHighest(risks, i + 1, hz, score)
             ELSE ResolveLoopHighest(risks, i + 1, best, best_score)

overall_hazard_prediction_highest(flood, storm, rain, wind, eq) ==
    LET risks == [hz \in HazardKinds |->
                    CASE hz = "flood" -> flood [] hz = "storm" -> storm
                      [] hz = "rain" -> rain [] hz = "wind" -> wind
                      [] hz = "earthquake" -> eq]
        r == ResolveLoopHighest(risks, 1, "no", 0)
    IN  IF r.best_score < 2 THEN "No" ELSE Capitalize(r.best)

overall_hazard_prediction(flood, storm, rain, wind, eq) ==
    LET risks == [hz \in HazardKinds |->
                    CASE hz = "flood" -> flood [] hz = "storm" -> storm
                      [] hz = "rain" -> rain [] hz = "wind" -> wind
                      [] hz = "earthquake" -> eq]
        r == ResolveLoop(risks, 1, "no", 0)
    IN  IF r.best_score < 2 THEN "No" ELSE Capitalize(r.best)

\* The forecast variant (predict/seven_days_predict.py, lines 136-167): the
\* loop of overall_hazard_prediction_rule over HAZARD_PRIORITY[i..].
RECURSIVE ResolveLoopRule(_, _, _, _)
ResolveLoopRule(risks, i, best, best_score) ==
    IF i > Len(HAZARD_PRIORITY) THEN [best |-> best, best_score |-> best_score]
    ELSE LET hz == HAZARD_PRIORITY[i]
             score == RISK_ORDER[risks[hz]]
             min_threshold == IF hz = "wind" THEN 3 ELSE 2
         IN  IF score >= min_threshold /\ score > best_score
             THEN ResolveLoopRule(risks, i + 1, hz, score)
             ELSE ResolveLoopRule(risks, i + 1, best, best_score)

overall_hazard_prediction_rule(flood, storm, rain, wind, eq) ==
    LET risks == [hz \in HazardKinds |->
                    CASE hz = "flood" -> flood [] hz = "storm" -> storm
                      [] hz = "rain" -> rain [] hz = "wind" -> wind
                      [] hz = "earthquake" -> eq]
        r == ResolveLoopRule(risks, 1, "no", 0)
    IN  IF r.best_score = 0 THEN "No" ELSE Capitalize(r.best)

ResolverIdle ==
    /\ labels = [hz \in HazardKinds |-> "no"]
    /\ resolved = "unset"

\* Any five labels of a reading
ResolverInit ==
    /\ labels \in [HazardKinds -> HazardLabels]
    /\ resolved = "unset"

\* process_single_location, line 259
Resolve ==
    /\ resolved = "unset"
    /\ resolved' = overall_hazard_prediction(labels["flood"], labels["storm"],
                        labels["rain"], labels["wind"], labels["earthquake"])
    /\ UNCHANGED labels

-----------------------------------------------------------------------------
(* Alert conversion (routers/alerts.py, lines 91-235)                      *)

Abs(x) == IF x < 0 THEN -x ELSE x

\* Python's round(n / d) for n >= 0, d > 0: to the nearest integer, a half
\* to the even neighbour.
RoundHalfEven(n, d) ==
    LET q == n \div d
        r == n % d
    IN  IF 2 * r > d \/ (2 * r = d /\ q % 2 = 1) THEN q + 1 ELSE q

\* Metres of great circle per degree of latitude: 6371.0 km * pi / 180
METRES_PER_DEGREE == 111195

\* haversine_distance, in metres, for two points on one meridian (lon1 =
\* lon2): there a = sin^2(dlat / 2), c = |dlat| in radians and the result is
\* R * |dlat|.  Every point of the model lies on the user's meridian.
haversine_distance(lat1, lon1, lat2, lon2) ==
    CASE lon1 = lon2 -> (Abs(lat2 - lat1) * METRES_PER_DEGREE) \div 10000

\* round(dist, 1), in units of 0.1 km, of a distance in metres: the metres
\* are the true distance cut to a whole number, so that a remainder of 50
\* stands for a distance past the half.
RoundToTenthKm(dist) == (dist + 50) \div 100

map_risk_level_to_severity_swapped(risk_level) ==
    CASE risk_level = "Critical" -> "high"
      [] risk_level = "High Risk" -> "medium"
      [] risk_level = "Medium Risk" -> "high"
      [] risk_level = "Low Risk" -> "low"
      [] risk_level = "Info" -> "low"
      [] OTHER -> "low"

\* A mapping that also knows the levels the pass writes.
map_risk_level_to_severity_of_labels(risk_level) ==
    CASE risk_level \in {"Critical", "High Risk", "High", "Mid-high"} -> "high"
      [] risk_level \in {"Medium Risk", "Mid"} -> "medium"
      [] OTHER -> "low"

map_risk_level_to_severity(risk_level) ==
    CASE risk_level = "Critical" -> "high"
      [] risk_level = "High Risk" -> "high"
      [] risk_level = "Medium Risk" -> "medium"
      [] risk_level = "Low Risk" -> "low"
      [] risk_level = "Info" -> "low"
      [] OTHER -> "low"

\* str.lower() on the hazard names
Lower(name) ==
    CASE name = "No" -> "no"
      [] name = "Wind" -> "wind"
      [] name = "Rain" -> "rain"
      [] name = "Storm" -> "storm"
      [] name = "Flood" -> "flood"
      [] name = "Earthquake" -> "earthquake"
      [] name = "Unknown" -> "unknown"
      [] name = "Typhoon" -> "typhoon"
      [] name = "Landslide" -> "landslide"
      [] name = "Tsunami" -> "tsunami"
      [] OTHER -> name

map_disaster_type_to_category_flood_weather(disaster_type) ==
    LET t == Lower(disaster_type)
    IN  CASE t = "wind" -> "weather"
          [] t = "flood" -> "weather"
          [] t = "earthquake" -> "disaster"
          [] t = "storm" -> "weather"
          [] t = "typhoon" -> "weather"
          [] t = "landslide" -> "disaster"
          [] t = "tsunami" -> "disaster"
          [] OTHER -> "weather"

map_disaster_type_to_category(disaster_type) ==
    LET t == Lower(disaster_type)
    IN  CASE t = "wind" -> "weather"
          [] t = "flood" -> "disaster"
          [] t = "earthquake" -> "disaster"
          [] t = "storm" -> "weather"
          [] t = "typhoon" -> "weather"
          [] t = "landslide" -> "disaster"
          [] t = "tsunami" -> "disaster"
          [] OTHER -> "weather"

calculate_priority_weights_swapped(severity, affected_population, issued_at, intensity, now) ==
    LET severity_score == CASE severity = "high" -> 100
                            [] severity = "medium" -> 60
                            [] severity = "low" -> 30
                            [] OTHER -> 30
        per_thousand == affected_population \div 1000
        population_score == IF affected_population # 0
                            THEN (IF per_thousand < 100 THEN per_thousand ELSE 100)
                            ELSE 50
        intensity_score == IF Abs(intensity) < 100 THEN Abs(intensity) ELSE 100
        hours_since_issued == now - issued_at
        recency_score == IF 100 - hours_since_issued * 5 > 0
                         THEN 100 - hours_since_issued * 5 ELSE 0
    IN  RoundHalfEven(3 * severity_score + 4 * population_score
                        + 2 * intensity_score + recency_score, 10)

\* severity_map.get(severity, 30) (lines 125-126)
severity_map(severity) ==
    CASE severity = "high" -> 100
      [] severity = "medium" -> 60
      [] severity = "low" -> 30
      [] OTHER -> 30

\* calculate_priority.  affected_population is a number of people, a
\* multiple of 1000 (0 for None); issued_at and now are hours; intensity is
\* in hundredths.  The weighted sum is kept in tenths.
calculate_priority(severity, affected_population, issued_at, intensity, now) ==
    LET severity_score == severity_map(severity)
        per_thousand == affected_population \div 1000
        population_score == IF affected_population # 0
                            THEN (IF per_thousand < 100 THEN per_thousand ELSE 100)
                            ELSE 50
        intensity_score == IF Abs(intensity) < 100 THEN Abs(intensity) ELSE 100
        hours_since_issued == now - issued_at
        recency_score == IF 100 - hours_since_issued * 5 > 0
                         THEN 100 - hours_since_issued * 5 ELSE 0
    IN  RoundHalfEven(4 * severity_score + 3 * population_score
                        + 2 * intensity_score + recency_score, 10)

\* affected_pop = 10000 (line 179)
AFFECTED_POP == 10000

\* location_name: the part of the name after "]" when there is one.  A name
\* is [tag, loc], standing for "[tag] loc", or for "loc" when tag is "".
LocationName(name) == name.loc

\* convert_risk_zone_to_alert.  The title is kept as its two parameters;
\* distance_km and should_notify are those of NearbyAlert, unset here.
convert_risk_zone_to_alert(zone, index, now) ==
    LET raw_hazard == IF zone.hazard_type # "" THEN zone.hazard_type ELSE "Unknown"
        risk_level == zone.risk_level
        hazard_type == IF risk_level = "No" THEN "No" ELSE raw_hazard
        severity == IF risk_level = "No" THEN "low"
                    ELSE map_risk_level_to_severity(risk_level)
    IN  [id |-> zone.id,
         title |-> [hazard |-> hazard_type, loc |-> LocationName(zone.name)],
         severity |-> severity,
         category |-> map_disaster_type_to_category(hazard_type),
         location |-> [province |-> LocationName(zone.name),
                       coordinates |-> zone.center],
         priority |-> calculate_priority(severity, AFFECTED_POP, zone.time, 0, now),
         issued_at |-> zone.time,
         has_distance |-> FALSE,
         distance_km |-> 0,
         should_notify |-> FALSE]

-----------------------------------------------------------------------------
(* The alert queries (routers/alerts.py, lines 239-356)                    *)

\* The value of a set of one element
Only(S) == CHOOSE x \in S : TRUE

Max(S) == CHOOSE x \in S : \A y \in S : y <= x

\* Python's list.sort is stable.  Entries are [k1, k2, val], ordered by the
\* tuple (k1, k2) ascending.
KeyLess(x, y) == x.k1 < y.k1 \/ (x.k1 = y.k1 /\ x.k2 < y.k2)

\* The place of entry i after the sort: behind the entries of smaller key
\* and the earlier entries of equal key.
Place(s, i) ==
    1 + Cardinality({j \in 1..Len(s) :
                        \/ KeyLess(s[j], s[i])
                        \/ (j < i /\ ~KeyLess(s[i], s[j]))})

SortKeyed(s) ==
    [p \in 1..Len(s) |-> s[CHOOSE i \in 1..Len(s) : Place(s, i) = p].val]

\* alerts.sort(key=lambda x: x.priority, reverse=True)
SortByPriorityDesc(alerts) ==
    SortKeyed([i \in 1..Len(alerts) |->
                  [k1 |-> -alerts[i].priority, k2 |-> 0, val |-> alerts[i]]])

\* hazards.sort(key=lambda x: x.distance_km)
SortByDistanceKm(alerts) ==
    SortKeyed([i \in 1..Len(alerts) |->
                  [k1 |-> alerts[i].distance_km, k2 |-> 0, val |-> alerts[i]]])

\* The distance, in km, given to an entry without distance_km (line 342)
NO_DISTANCE == 9999

\* get_all_alerts: sort_key's distance, in units of 0.1 km
DistanceOrSentinel(alert) ==
    IF alert.has_distance THEN alert.distance_km ELSE NO_DISTANCE * 10

\* combined_alerts.sort(key=sort_key)
SortCombined(alerts) ==
    SortKeyed([i \in 1..Len(alerts) |->
                  [k1 |-> DistanceOrSentinel(alerts[i]),
                   k2 |-> -alerts[i].priority, val |-> alerts[i]]])

\* [s[i] for the positions i kept], in the order of s
SelectPositions(s, keep) ==
    [p \in 1..Cardinality(keep) |->
        s[CHOOSE i \in keep : Cardinality({j \in keep : j < i}) = p - 1]]

ConvertAll(data, now) ==
    [i \in 1..Len(data) |-> convert_risk_zone_to_alert(data[i], i - 1, now)]

\* lines 251-259 on the converted zones: the alerts the filters keep
FilterAlerts(all, severity, category) ==
    SelectPositions(all,
        {i \in 1..Len(all) :
            /\ ~(severity # "None" /\ all[i].severity # severity)
            /\ ~(category # "None" /\ all[i].category # category)})

\* get_national_alerts.  severity and category are "None", a value of the
\* parameter, or "QueryDefault": the default object Query(None, ...) that
\* the parameter holds when the function is called directly and the
\* argument is left out; that object is true and differs from every string.
get_national_alerts(data, limit, severity, category, now) ==
    Only({ [data |-> Take(alerts, limit), total |-> Len(alerts)] :
             alerts \in { SortByPriorityDesc(FilterAlerts(all, severity, category)) :
                            all \in {ConvertAll(data, now)} } })

AllNearby_notify_by_rounded(data, lat, lng, radius, now) ==
    Only({ SelectPositions(
               [i \in 1..Len(all) |->
                   LET dist == haversine_distance(lat, lng,
                                   all[i].location.coordinates[1],
                                   all[i].location.coordinates[2])
                   IN  [all[i] EXCEPT
                           !.has_distance = TRUE,
                           !.distance_km = RoundToTenthKm(dist),
                           !.should_notify =
                               \/ (all[i].severity = "high"
                                      /\ RoundToTenthKm(dist) < 100)
                               \/ (all[i].severity = "medium"
                                      /\ RoundToTenthKm(dist) < 50)]],
               {i \in 1..Len(all) :
                   haversine_distance(lat, lng, all[i].location.coordinates[1],
                                      all[i].location.coordinates[2]) <= radius})
           : all \in {ConvertAll(data, now)} })

\* lines 283-297: the alerts within the radius, with distance_km and
\* should_notify.  Distances and radius are in metres.
AllNearby(data, lat, lng, radius, now) ==
    Only({ SelectPositions(
               [i \in 1..Len(all) |->
                   LET dist == haversine_distance(lat, lng,
                                   all[i].location.coordinates[1],
                                   all[i].location.coordinates[2])
                   IN  [all[i] EXCEPT
                           !.has_distance = TRUE,
                           !.distance_km = RoundToTenthKm(dist),
                           !.should_notify =
                               \/ (all[i].severity = "high" /\ dist < 10000)
                               \/ (all[i].severity = "medium" /\ dist < 5000)]],
               {i \in 1..Len(all) :
                   haversine_distance(lat, lng, all[i].location.coordinates[1],
                                      all[i].location.coordinates[2]) <= radius})
           : all \in {ConvertAll(data, now)} })

\* lines 299-310 on all_nearby: the hazards, else the closest alert
SelectNearby(all_nearby) ==
    Only({ IF hazards # <<>> THEN SortByDistanceKm(hazards)
           ELSE IF all_nearby # <<>> THEN <<SortByDistanceKm(all_nearby)[1]>>
           ELSE <<>>
           : hazards \in { SelectPositions(all_nearby,
                               {i \in 1..Len(all_nearby) :
                                   /\ all_nearby[i].severity # "safe"
                                   /\ all_nearby[i].category # "weather"}) } })

\* get_nearby_alerts
get_nearby_alerts(data, lat, lng, radius, now) ==
    Only({ SelectNearby(all_nearby) :
             all_nearby \in {AllNearby(data, lat, lng, radius, now)} })

\* The radius get_all_alerts passes to get_nearby_alerts (line 325), metres
ALL_NEARBY_RADIUS == 50000

\* The limit get_all_alerts passes to get_national_alerts (line 320)
ALL_NATIONAL_LIMIT == 20

\* alert_map's values: a key keeps the place of its first assignment; the
\* nearby entries are assigned first, each over an earlier one of its id,
\* then the national entries whose id is not yet a key.
MergeById(nearby, national_alerts) ==
    Only({ SelectPositions(
               [i \in 1..Len(entries) |->
                   LET again == {j \in 1..Len(nearby) : nearby[j].id = entries[i].id}
                   IN  IF again = {} THEN entries[i] ELSE nearby[Max(again)]],
               {i \in 1..Len(entries) :
                   \A j \in 1..(i - 1) : entries[j].id # entries[i].id})
           : entries \in {nearby \o national_alerts} })

\* lines 328-356 on the two lists
CombineAlerts(national_alerts, nearby, limit) ==
    Only({ [national |-> Take(national_alerts, 20),
            nearby |-> Take(nearby, 20),
            combined |-> Take(combined_alerts, limit),
            total |-> Len(combined_alerts)]
           : combined_alerts \in {SortCombined(MergeById(nearby, national_alerts))} })

\* get_all_alerts; located is "lat is not None and lng is not None"
get_all_alerts(data, located, lat, lng, limit, category, now) ==
    Only({ CombineAlerts(national_alerts, nearby, limit) :
             national_alerts \in
                 { get_national_alerts(data, ALL_NATIONAL_LIMIT, "QueryDefault",
                                       category, now).data },
             nearby \in
                 { IF located
                   THEN get_nearby_alerts(data, lat, lng, ALL_NEARBY_RADIUS, now)
                   ELSE <<>> } })

-----------------------------------------------------------------------------
(* Snapshots and requests of the alert queries                             *)

\* The most features a snapshot of the model holds
MaxZones == 2

\* Where the user of the model stands
User == [lat |-> 210285, lng |-> 1058542]

\* A feature of the file: a zone named "[hazard] loc" whose center lies
\* off * 1e-4 degree north of the user, of an event age hours old.
Zone(loc, hazard, risk_level, off, age) ==
    [kind |-> "feature", id |-> 0,
     name |-> [tag |-> hazard, loc |-> loc],
     hazard_type |-> hazard, risk_level |-> risk_level,
     time |-> CurrentHour - age,
     center |-> <<User.lat + off, User.lng>>]

\* Zones a file can hold.  Distances: 180 -> 2001 m, 183 -> 2034 m,
\* 449 -> 4992 m, 450 -> 5003 m, 899 -> 9996 m, 900 -> 10007 m,
\* 3598 -> 40007 m, 3600 -> 40030 m, 4496 -> 49993 m, 4497 -> 50004 m.
ZoneTemplates ==
    { Zone("Hanoi", "No", "Info", 180, 1),
      Zone("Ha Dong", "No", "Info", 183, 2),
      Zone("Hoa Binh", "Rain", "Mid", 3598, 1),
      Zone("Hoa Binh", "Wind", "High", 3598, 1),
      Zone("Hoa Binh", "Storm", "Mid-high", 3598, 1),
      Zone("Hoa Binh", "Flood", "High", 3598, 1),
      Zone("Hoa Binh", "Flood", "High", 3598, 7),
      Zone("Viet Tri", "Earthquake", "Mid", 3600, 1),
      Zone("Gia Lam", "Flood", "High Risk", 899, 1),
      Zone("Bac Ninh", "Earthquake", "Critical", 900, 4),
      Zone("Cau Giay", "Flood", "Medium Risk", 449, 1),
      Zone("Tay Ho", "Earthquake", "Medium Risk", 450, 1),
      Zone("Hai Phong", "Flood", "Low Risk", 4496, 9),
      Zone("Hai Duong", "Flood", "High Risk", 4497, 1),
      Zone("Dong Anh", "Wind", "High Risk", 449, 1),
      Zone("Soc Son", "Flood", "No", 900, 1) }

\* A file of n features; the i-th carries the id i of its row.
Snapshots ==
    UNION { { [i \in 1..n |-> [t[i] EXCEPT !.id = i]] : t \in [1..n -> ZoneTemplates] }
            : n \in 0..MaxZones }

NoRequest ==
    [op |-> "none", limit |-> 0, severity |-> "None", category |-> "None",
     located |-> FALSE, radius |-> 0]

NoResponse == [data |-> <<>>, total |-> 0, national |-> <<>>, nearby |-> <<>>]

AlertsIdle ==
    /\ snapshot = <<>>
    /\ request = NoRequest
    /\ response = NoResponse

AlertsInit ==
    /\ snapshot \in Snapshots
    /\ request = NoRequest
    /\ response = NoResponse

\* GET /national.  The handlers keep nothing from one request to the next:
\* a behaviour serves one request on its snapshot.
National(limit, severity, category) ==
    /\ request = NoRequest
    /\ request' = [NoRequest EXCEPT !.op = "national", !.limit = limit,
                                    !.severity = severity, !.category = category]
    /\ \E r \in {get_national_alerts(snapshot, limit, severity, category,
                                      CurrentHour)} :
           response' = [NoResponse EXCEPT !.data = r.data, !.total = r.total]
    /\ UNCHANGED snapshot

\* GET /nearby, and the WebSocket's update_location (radius 20 km)
Nearby(radius) ==
    /\ request = NoRequest
    /\ request' = [NoRequest EXCEPT !.op = "nearby", !.located = TRUE,
                                    !.radius = radius]
    /\ \E r \in {get_nearby_alerts(snapshot, User.lat, User.lng, radius,
                                    CurrentHour)} :
           response' = [NoResponse EXCEPT !.data = r, !.total = Len(r)]
    /\ UNCHANGED snapshot

\* GET /all
All(located, limit, category) ==
    /\ request = NoRequest
    /\ request' = [NoRequest EXCEPT !.op = "all", !.limit = limit,
                                    !.category = category, !.located = located,
                                    !.radius = ALL_NEARBY_RADIUS]
    /\ \E r \in {get_all_alerts(snapshot, located, User.lat, User.lng, limit,
                                 category, CurrentHour)} :
           response' = [data |-> r.combined, total |-> r.total,
                        national |-> r.national, nearby |-> r.nearby]
    /\ UNCHANGED snapshot

AlertsNext ==
    \/ \E limit \in {1, 20}, severity \in {"None", "high"},
          category \in {"None", "disaster"} : National(limit, severity, category)
    \/ \E radius \in {20000, 50000} : Nearby(radius)
    \/ \E located \in BOOLEAN, limit \in {1, 50},
          category \in {"None", "disaster"} : All(located, limit, category)

-----------------------------------------------------------------------------
(* Scoring one row (process_data_integrated.py, lines 36-59 and 105-114;   *)
(* core/gis_utils.py, lines 7-33)                                          *)

\* The characters of the strings the rows carry
Chars(str) ==
    CASE str = "No" -> <<"N", "o">>
      [] str = "Unknown" -> <<"U", "n", "k", "n", "o", "w", "n">>
      [] str = "Rain" -> <<"R", "a", "i", "n">>
      [] str = "Storm" -> <<"S", "t", "o", "r", "m">>
      [] str = "Wind" -> <<"W", "i", "n", "d">>
      [] str = "Flood" -> <<"F", "l", "o", "o", "d">>
      [] str = "Earthquake" -> <<"E", "a", "r", "t", "h", "q", "u", "a", "k", "e">>
      [] str = "Info" -> <<"I", "n", "f", "o">>
      [] str = "Low" -> <<"L", "o", "w">>
      [] str = "Mid" -> <<"M", "i", "d">>
      [] str = "Mid-high" -> <<"M", "i", "d", "-", "h", "i", "g", "h">>
      [] str = "High" -> <<"H", "i", "g", "h">>
      [] str = "storm" -> <<"s", "t", "o", "r", "m">>
      [] str = "wind" -> <<"w", "i", "n", "d">>
      [] str = "flood" -> <<"f", "l", "o", "o", "d">>
      [] str = "earthquake" -> <<"e", "a", "r", "t", "h", "q", "u", "a", "k", "e">>
      [] str = "low" -> <<"l", "o", "w">>
      [] str = "mid" -> <<"m", "i", "d">>
      [] str = "mid-high" -> <<"m", "i", "d", "-", "h", "i", "g", "h">>
      [] str = "high" -> <<"h", "i", "g", "h">>
      [] str = "" -> <<>>
      [] str = "heavy" -> <<"h", "e", "a", "v", "y">>
      [] str = "thunderstorm" ->
            <<"t", "h", "u", "n", "d", "e", "r", "s", "t", "o", "r", "m">>
      [] str = "heavy intensity rain" ->
            <<"h", "e", "a", "v", "y", " ", "i", "n", "t", "e", "n", "s", "i",
              "t", "y", " ", "r", "a", "i", "n">>

LowerChar(c) ==
    CASE c = "E" -> "e" [] c = "F" -> "f" [] c = "H" -> "h" [] c = "I" -> "i"
      [] c = "L" -> "l" [] c = "M" -> "m" [] c = "N" -> "n" [] c = "R" -> "r"
      [] c = "S" -> "s" [] c = "U" -> "u" [] c = "W" -> "w" [] OTHER -> c

\* str.lower(), character by character
LowerChars(cs) == [i \in 1..Len(cs) |-> LowerChar(cs[i])]

\* Python's "sub in s" on strings: sub occurs in s, case and all
Contains(sub, cs) ==
    \E i \in 0..(Len(cs) - Len(sub)) : SubSeq(cs, i + 1, i + Len(sub)) = sub

calculate_dynamic_safety_score_added(risk_level_str, weather_data) ==
    LET rl == LowerChars(Chars(risk_level_str))
        level == IF Contains(Chars("high"), rl) THEN 70
                 ELSE IF Contains(Chars("mid-high"), rl) THEN 50
                 ELSE IF Contains(Chars("mid"), rl) THEN 30
                 ELSE IF Contains(Chars("low"), rl) THEN 10
                 ELSE 0
        deduction == level
                     + (IF weather_data.rain_label # "no" THEN 5 ELSE 0)
                     + (IF weather_data.wind_speed > 5 THEN 5 ELSE 0)
                     + (IF weather_data.humidity > 90 THEN 2 ELSE 0)
    IN  IF 100 + deduction > 0 THEN 100 + deduction ELSE 0

calculate_dynamic_safety_score(risk_level_str, weather_data) ==
    LET rl == LowerChars(Chars(risk_level_str))
        level == IF Contains(Chars("high"), rl) THEN 70
                 ELSE IF Contains(Chars("mid-high"), rl) THEN 50
                 ELSE IF Contains(Chars("mid"), rl) THEN 30
                 ELSE IF Contains(Chars("low"), rl) THEN 10
                 ELSE 0
        deduction == level
                     + (IF weather_data.rain_label # "no" THEN 5 ELSE 0)
                     + (IF weather_data.wind_speed > 5 THEN 5 ELSE 0)
                     + (IF weather_data.humidity > 90 THEN 2 ELSE 0)
    IN  IF 100 - deduction > 0 THEN 100 - deduction ELSE 0

\* map_intensity_for_radius, in tenths (3.0, 2.0, 1.5, 1.0)
map_intensity_for_radius(risk_level_str) ==
    LET rl == LowerChars(Chars(risk_level_str))
    IN  IF Contains(Chars("high"), rl) THEN 30
        ELSE IF Contains(Chars("mid-high"), rl) THEN 20
        ELSE IF Contains(Chars("mid"), rl) THEN 15
        ELSE 10

get_risk_classification_above(safety_score) ==
    LET score == IF safety_score > 100 THEN 100
                 ELSE IF safety_score < 0 THEN 0 ELSE safety_score
    IN  IF score > 80 THEN [level |-> "Info", color_code |-> "#28A745"]
        ELSE IF score > 50 THEN [level |-> "Low", color_code |-> "#FFC107"]
        ELSE IF score > 25 THEN [level |-> "Medium", color_code |-> "#FF8C00"]
        ELSE [level |-> "High", color_code |-> "#FF0000"]

get_risk_classification(safety_score) ==
    LET score == IF safety_score > 100 THEN 100
                 ELSE IF safety_score < 0 THEN 0 ELSE safety_score
    IN  IF score >= 80 THEN [level |-> "Info", color_code |-> "#28A745"]
        ELSE IF score >= 50 THEN [level |-> "Low", color_code |-> "#FFC107"]
        ELSE IF score >= 25 THEN [level |-> "Medium", color_code |-> "#FF8C00"]
        ELSE [level |-> "High", color_code |-> "#FF0000"]

BASE_RADIUS == 3000

\* get_radius_in_meters; intensity in tenths, int() cuts the fraction
get_radius_in_meters(disaster_type, intensity) ==
    LET t == Chars(disaster_type)
    IN  IF Contains(Chars("storm"), t) \/ Contains(Chars("wind"), t)
        THEN (BASE_RADIUS * 10 + intensity * 1500) \div 10
        ELSE IF Contains(Chars("earthquake"), t)
        THEN (BASE_RADIUS * 10 + intensity * 3000) \div 10
        ELSE IF Contains(Chars("flood"), t)
        THEN (BASE_RADIUS * 10 + intensity * 1) \div 10
        ELSE BASE_RADIUS

\* Lines 94-114 and 123-127: the properties computed for one row from its
\* raw_data and the hazard the predictor names
ScoreRow(raw_data, predicted_hazard) ==
    Only({ [hazard_type |-> predicted_hazard,
            risk_level |-> risk_level,
            safety_score |-> calculate_dynamic_safety_score(risk_level, raw_data),
            color |-> get_risk_classification(
                          calculate_dynamic_safety_score(risk_level, raw_data)).color_code,
            radius |-> get_radius_in_meters(predicted_hazard,
                                            map_intensity_for_radius(risk_level))]
           : risk_level \in {RiskLevelOf(raw_data, predicted_hazard)} })

-----------------------------------------------------------------------------
(* The hazard predictor (ml/predictor_hazard.py)                           *)

\* What a step of Python gives: a value returned or an exception raised
Value(v) == [raised |-> FALSE, value |-> v]

Raised == [raised |-> TRUE, value |-> "Exception"]

DEFAULT_MAP == <<"No", "Rain", "Storm", "Wind", "Flood", "Earthquake">>

\* DEFAULT_MAP.get(label_id, "Unknown"); the keys are 0..5
DefaultName(label_id) ==
    IF label_id \in 0..(Len(DEFAULT_MAP) - 1) THEN DEFAULT_MAP[label_id + 1]
    ELSE "Unknown"

\* The classes of the label encoder of the artifact hazard_label_encoder.pkl:
\* a LabelEncoder keeps the names it was fitted on in sorted order.
EncoderClasses == <<"Earthquake", "Flood", "No", "Rain", "Storm", "Wind">>

\* label_encoder.inverse_transform([label_id])[0]: raises on an unseen id
InverseTransform(label_id) ==
    IF label_id \in 0..(Len(EncoderClasses) - 1)
    THEN Value(EncoderClasses[label_id + 1])
    ELSE Raised

\* HazardPredictor.__init__ and _load_model on the artifacts found on disk:
\* model_file is "missing", "corrupt" (joblib.load raises) or "ok";
\* features_from is "model", "file", "file_corrupt" or "none";
\* encoder_file is "missing", "ok" or "corrupt".  Any exception after the
\* model was loaded sets the model back to None (line 79), the fields
\* assigned before it stay.
LoadModel(artifacts) ==
    IF artifacts.model_file # "ok"
    THEN [model |-> FALSE, features |-> FALSE, label_encoder |-> FALSE]
    ELSE IF artifacts.features_from = "file_corrupt"
    THEN [model |-> FALSE, features |-> FALSE, label_encoder |-> FALSE]
    ELSE IF artifacts.encoder_file = "corrupt"
    THEN [model |-> FALSE, features |-> artifacts.features_from # "none",
          label_encoder |-> FALSE]
    ELSE [model |-> TRUE,
          features |-> artifacts.features_from # "none",
          label_encoder |-> artifacts.encoder_file = "ok"]

\* _prepare: None without features or when building the row throws
Prepare(self, input_data) ==
    IF ~self.features THEN "None"
    ELSE IF input_data.prepare_throws THEN "None"
    ELSE "X"

\* Lines 124-154, the body of the try: the inference throws or gives the
\* label id the prediction decodes to.
PredictBody(self, input_data) ==
    IF Prepare(self, input_data) = "None" THEN Value("Unknown")
    ELSE IF input_data.inference_throws THEN Raised
    ELSE IF self.label_encoder
    THEN (IF InverseTransform(input_data.label_id).raised
          THEN Value(DefaultName(input_data.label_id))
          ELSE InverseTransform(input_data.label_id))
    ELSE Value(DefaultName(input_data.label_id))

predict_overall_hazard_uncaught(self, input_data) ==
    IF ~self.model THEN Value("Unknown")
    ELSE PredictBody(self, input_data)

predict_overall_hazard(self, input_data) ==
    IF ~self.model THEN Value("Unknown")
    ELSE IF PredictBody(self, input_data).raised THEN Value("Unknown")
    ELSE PredictBody(self, input_data)

-----------------------------------------------------------------------------
(* The forecast endpoint and its cache (routers/forecast_7day.py, 20-148)  *)

\* The seconds of one tick of the clock of the model
SECONDS_PER_TICK == 200

\* The last tick of the clock of the model
MaxClock == 7

FORECAST_CACHE_TTL == 600

\* Coordinates asked for, in 1e-6 degree: the first two round to one key
ForecastPoints ==
    { [lat |-> 21028500, lon |-> 105854200],
      [lat |-> 21028504, lon |-> 105854200],
      [lat |-> 16054400, lon |-> 108202200] }

\* key = (round(float(lat), 5), round(float(lon), 5)), in 1e-5 degree
ForecastKey(lat, lon) == <<RoundHalfEven(lat, 10), RoundHalfEven(lon, 10)>>

ForecastKeys == {ForecastKey(pt.lat, pt.lon) : pt \in ForecastPoints}

NoEntry == [present |-> FALSE, ts |-> 0, df |-> <<>>]

\* generate_forecast_for_location(lat, lon) when it returns: the forecast of
\* the upstream data of the moment for the coordinates given
GeneratedForecast(lat, lon, now_ts) ==
    [lat |-> lat, lon |-> lon, made_at |-> now_ts]

CacheIsFresh_inclusive(cached, now_ts) ==
    /\ cached.present
    /\ (now_ts - cached.ts) * SECONDS_PER_TICK <= FORECAST_CACHE_TTL

\* cached and (now_ts - cached[0] < _FORECAST_CACHE_TTL)
CacheIsFresh(cached, now_ts) ==
    /\ cached.present
    /\ (now_ts - cached.ts) * SECONDS_PER_TICK < FORECAST_CACHE_TTL

NoForecastRequest ==
    [status |-> "none", key |-> <<>>, at |-> 0, called |-> FALSE,
     df |-> <<>>, before |-> NoEntry]

ForecastIdle ==
    /\ clock = 0
    /\ forecast_cache = [k \in ForecastKeys |-> NoEntry]
    /\ lastForecast = NoForecastRequest

ForecastInit == ForecastIdle

\* Time passes
Tick ==
    /\ clock < MaxClock
    /\ clock' = clock + 1
    /\ lastForecast' = NoForecastRequest
    /\ UNCHANGED forecast_cache

\* get_7day_forecast with lat and lon, the entry of the key being fresh
ServeCached(lat, lon) ==
    LET key == ForecastKey(lat, lon)
        cached == forecast_cache[key]
    IN  /\ CacheIsFresh(cached, clock)
        /\ lastForecast' = [status |-> "cached", key |-> key, at |-> clock,
                            called |-> FALSE, df |-> cached.df, before |-> cached]
        /\ UNCHANGED <<clock, forecast_cache>>

\* get_7day_forecast with lat and lon, no fresh entry: the generator returns
GenerateForecast(lat, lon) ==
    LET key == ForecastKey(lat, lon)
        cached == forecast_cache[key]
        df == GeneratedForecast(lat, lon, clock)
    IN  /\ ~CacheIsFresh(cached, clock)
        /\ forecast_cache' = [forecast_cache EXCEPT
                                 ![key] = [present |-> TRUE, ts |-> clock, df |-> df]]
        /\ lastForecast' = [status |-> "generated", key |-> key, at |-> clock,
                            called |-> TRUE, df |-> df, before |-> cached]
        /\ UNCHANGED clock

\* get_7day_forecast with lat and lon, no fresh entry: the generator raises
\* (an upstream call fails) and the handler answers 500
GenerateFails(lat, lon) ==
    LET key == ForecastKey(lat, lon)
        cached == forecast_cache[key]
    IN  /\ ~CacheIsFresh(cached, clock)
        /\ lastForecast' = [status |-> "failed", key |-> key, at |-> clock,
                            called |-> TRUE, df |-> <<>>, before |-> cached]
        /\ UNCHANGED <<clock, forecast_cache>>

\* get_7day_forecast without coordinates: the forecast of the CSV file
ServeCsv ==
    /\ lastForecast' = [NoForecastRequest EXCEPT !.status = "csv", !.at = clock]
    /\ UNCHANGED <<clock, forecast_cache>>

ForecastNext ==
    \/ Tick
    \/ \E pt \in ForecastPoints : ServeCached(pt.lat, pt.lon)
    \/ \E pt \in ForecastPoints : GenerateForecast(pt.lat, pt.lon)
    \/ \E pt \in ForecastPoints : GenerateFails(pt.lat, pt.lon)
    \/ ServeCsv

-----------------------------------------------------------------------------
(* The collector (worker/data_collector.py, lines 48-112 and 174-327)      *)
(* Raw values of the feeds are in thousandths; a cleaned field is in units *)
(* of its precision: hundredths, tenths (temperature) or units (humidity,  *)
(* pressure).                                                              *)

\* What a field of a decoded JSON document can hold: None (null or absent),
\* a number (v, in thousandths), something float() rejects with ValueError
\* or TypeError (a text that is no number, a list, an object), an integer of
\* more than 308 digits, for which float() raises OverflowError, or NaN
None == [kind |-> "none", v |-> 0]

Some(x) == [kind |-> "number", v |-> x]

Unparsable == [kind |-> "unparsable", v |-> 0]

HugeInt == [kind |-> "huge", v |-> 0]

NaN == [kind |-> "nan", v |-> 0]

Pow10(k) == CASE k = 0 -> 1 [] k = 1 -> 10 [] k = 2 -> 100 [] k = 3 -> 1000

\* round(float(val), precision) of a value in thousandths, in units of
\* 10^-precision.  A half goes to the even neighbour when the value is exact
\* in binary (a multiple of 0.125); the values of the model at a half are
\* such multiples.
RoundTo(v, precision) ==
    IF v >= 0 THEN RoundHalfEven(v, Pow10(3 - precision))
    ELSE -RoundHalfEven(-v, Pow10(3 - precision))

\* What preprocess_value gives: a number v in units of 10^-precision, NaN,
\* or an exception that leaves the function
Num(x) == [raised |-> FALSE, nan |-> FALSE, v |-> x]

NumNaN == [raised |-> FALSE, nan |-> TRUE, v |-> 0]

NumRaised == [raised |-> TRUE, nan |-> FALSE, v |-> 0]

\* preprocess_value; default is given in units of 10^-precision.  The except
\* clause names ValueError and TypeError only.
preprocess_value(val, default, precision) ==
    CASE val.kind = "none" -> Num(default)
      [] val.kind = "unparsable" -> Num(default)
      [] val.kind = "huge" -> NumRaised
      [] val.kind = "nan" -> NumNaN
      [] val.kind = "number" -> Num(RoundTo(val.v, precision))

Max0(x) == IF x < 0 THEN 0 ELSE x

label_rain(p6_in, p24_in) ==
    LET p6 == Max0(p6_in)
        p24 == Max0(p24_in)
    IN  IF p24 > 8000 \/ p6 > 4000 THEN "high"
        ELSE IF p24 > 5000 \/ p6 > 2500 THEN "mid-high"
        ELSE IF p24 > 2000 \/ p6 > 1000 THEN "mid"
        ELSE IF p24 > 300 \/ p6 > 100 THEN "low"
        ELSE "no"

label_wind_swapped(gust6_in) ==
    LET gust6 == Max0(gust6_in)
    IN  IF gust6 > 2500 THEN "mid-high"
        ELSE IF gust6 > 1800 THEN "high"
        ELSE IF gust6 > 1000 THEN "mid"
        ELSE IF gust6 > 500 THEN "low"
        ELSE "no"

label_wind(gust6_in) ==
    LET gust6 == Max0(gust6_in)
    IN  IF gust6 > 2500 THEN "high"
        ELSE IF gust6 > 1800 THEN "mid-high"
        ELSE IF gust6 > 1000 THEN "mid"
        ELSE IF gust6 > 500 THEN "low"
        ELSE "no"

label_storm_sentinel_as_pressure(gust6, p6, p24, wind, pressure, weather_desc) ==
    LET g6 == Max0(gust6)
        r6 == Max0(p6)
        r24 == Max0(p24)
        pres == pressure
        desc == LowerChars(Chars(weather_desc))
        s_gust == IF g6 > 2500 THEN 4 ELSE IF g6 > 1800 THEN 3
                  ELSE IF g6 > 1200 THEN 2 ELSE IF g6 > 800 THEN 1 ELSE 0
        s_rain == IF r24 > 8000 \/ r6 > 4000 THEN 4
                  ELSE IF r24 > 5000 \/ r6 > 2500 THEN 3
                  ELSE IF r24 > 2000 \/ r6 > 1000 THEN 2
                  ELSE IF r24 > 300 \/ r6 > 100 THEN 1 ELSE 0
        s_pres == IF pres < 990 THEN 4 ELSE IF pres < 995 THEN 3
                  ELSE IF pres < 1000 THEN 2 ELSE 0
        s_desc == IF Contains(Chars("thunderstorm"), desc) THEN 2
                  ELSE IF Contains(Chars("heavy"), desc) THEN 1 ELSE 0
        score == s_gust + s_rain + s_pres + s_desc
    IN  IF score >= 12 THEN "high"
        ELSE IF score >= 9 THEN "mid-high"
        ELSE IF score >= 6 THEN "mid"
        ELSE IF score >= 3 THEN "low"
        ELSE "no"

label_storm(gust6, p6, p24, wind, pressure, weather_desc) ==
    LET g6 == Max0(gust6)
        r6 == Max0(p6)
        r24 == Max0(p24)
        pres == IF pressure = -1 THEN 1013 ELSE pressure
        desc == LowerChars(Chars(weather_desc))
        s_gust == IF g6 > 2500 THEN 4 ELSE IF g6 > 1800 THEN 3
                  ELSE IF g6 > 1200 THEN 2 ELSE IF g6 > 800 THEN 1 ELSE 0
        s_rain == IF r24 > 8000 \/ r6 > 4000 THEN 4
                  ELSE IF r24 > 5000 \/ r6 > 2500 THEN 3
                  ELSE IF r24 > 2000 \/ r6 > 1000 THEN 2
                  ELSE IF r24 > 300 \/ r6 > 100 THEN 1 ELSE 0
        s_pres == IF pres < 990 THEN 4 ELSE IF pres < 995 THEN 3
                  ELSE IF pres < 1000 THEN 2 ELSE 0
        s_desc == IF Contains(Chars("thunderstorm"), desc) THEN 2
                  ELSE IF Contains(Chars("heavy"), desc) THEN 1 ELSE 0
        score == s_gust + s_rain + s_pres + s_desc
    IN  IF score >= 12 THEN "high"
        ELSE IF score >= 9 THEN "mid-high"
        ELSE IF score >= 6 THEN "mid"
        ELSE IF score >= 3 THEN "low"
        ELSE "no"

label_flood(river) ==
    IF river = -100 THEN "no"
    ELSE IF river > 800000 THEN "high"
    ELSE IF river > 500000 THEN "mid-high"
    ELSE IF river > 200000 THEN "mid"
    ELSE IF river > 50000 THEN "low"
    ELSE "no"

label_earthquake_no_sentinel(mag, dist) ==
    IF mag >= 600 /\ dist <= 15000 THEN "high"
    ELSE IF mag >= 550 /\ dist <= 30000 THEN "mid-high"
    ELSE IF mag >= 500 /\ dist <= 50000 THEN "mid"
    ELSE IF mag >= 450 /\ dist <= 80000 THEN "low"
    ELSE "no"

label_earthquake(mag, dist) ==
    IF mag = -100 \/ dist = -100 THEN "no"
    ELSE IF mag >= 600 /\ dist <= 15000 THEN "high"
    ELSE IF mag >= 550 /\ dist <= 30000 THEN "mid-high"
    ELSE IF mag >= 500 /\ dist <= 50000 THEN "mid"
    ELSE IF mag >= 450 /\ dist <= 80000 THEN "low"
    ELSE "no"

\* What the four fetches of one location can give: each fails or answers;
\* the flood service may answer with a discharge that is an oversized integer
FeedOutcomes ==
    [owm : {"fail", "ok"}, nowcast : {"fail", "ok"},
     flood : {"fail", "ok", "huge"}, earthquake : {"fail", "ok"}]

\* The answer of api.openweathermap.org when it answers
OwmData ==
    [temp |-> Some(30460), humidity |-> Some(80000), pressure |-> Some(992000),
     speed |-> Some(12340), description |-> "heavy intensity rain"]

\* get_openmeteo_nowcast: {} on any failure, and {}.get(...) is None
get_openmeteo_nowcast(outcome) ==
    IF outcome = "fail" THEN [gust6 |-> None, p6 |-> None, p24 |-> None]
    ELSE [gust6 |-> Some(19500), p6 |-> Some(30004), p24 |-> Some(60000)]

\* get_flood_forecast: None on any failure, else the largest discharge
get_flood_forecast(outcome) ==
    IF outcome = "fail" THEN None
    ELSE IF outcome = "huge" THEN HugeInt
    ELSE Some(6000000)

\* get_earthquake_stats: (None, None) on any failure
get_earthquake_stats(outcome) ==
    IF outcome = "fail" THEN <<None, None>> ELSE <<Some(5600), Some(120496)>>

NoReading == [raised |-> FALSE, produced |-> FALSE, flat_data |-> <<>>]

\* An exception leaves process_single_location
ReadingRaised == [raised |-> TRUE, produced |-> FALSE, flat_data |-> <<>>]

\* process_single_location, lines 234-286: the reading built once the
\* current weather was fetched
BuildReading(location_name, feeds) ==
    LET owm_data == OwmData
        nowcast_data == get_openmeteo_nowcast(feeds.nowcast)
        river_raw == get_flood_forecast(feeds.flood)
        eq_raw == get_earthquake_stats(feeds.earthquake)
        cleaned ==
            [temperature |-> preprocess_value(owm_data.temp, -990, 1),
             humidity |-> preprocess_value(owm_data.humidity, -1, 0),
             pressure |-> preprocess_value(owm_data.pressure, -1, 0),
             wind_speed |-> preprocess_value(owm_data.speed, 0, 2),
             gust6 |-> preprocess_value(nowcast_data.gust6, 0, 2),
             precip6 |-> preprocess_value(nowcast_data.p6, 0, 2),
             precip24 |-> preprocess_value(nowcast_data.p24, 0, 2),
             river_discharge |-> preprocess_value(river_raw, -100, 2),
             eq_mag |-> preprocess_value(eq_raw[1], -100, 2),
             eq_dist |-> preprocess_value(eq_raw[2], -100, 2)]
        temp == cleaned.temperature.v
        hum == cleaned.humidity.v
        pres == cleaned.pressure.v
        wind == cleaned.wind_speed.v
        gust6 == cleaned.gust6.v
        p6 == cleaned.precip6.v
        p24 == cleaned.precip24.v
        river == cleaned.river_discharge.v
        eq_mag == cleaned.eq_mag.v
        eq_dist == cleaned.eq_dist.v
        rain_lb == label_rain(p6, p24)
        wind_lb == label_wind(gust6)
        storm_lb == label_storm(gust6, p6, p24, wind, pres,
                                owm_data.description)
        flood_lb == label_flood(river)
        eq_lb == label_earthquake(eq_mag, eq_dist)
    IN  IF \E f \in DOMAIN cleaned : cleaned[f].raised THEN ReadingRaised
        ELSE
        [raised |-> FALSE, produced |-> TRUE,
         flat_data |->
            [location |-> location_name,
             temperature |-> temp, humidity |-> hum, pressure |-> pres,
             wind_speed |-> wind, precip6 |-> p6, precip24 |-> p24,
             gust6 |-> gust6, river_discharge |-> river,
             eq_mag |-> eq_mag, eq_dist |-> eq_dist,
             rain_label |-> rain_lb, wind_label |-> wind_lb,
             storm_label |-> storm_lb, flood_label |-> flood_lb,
             earthquake_label |-> eq_lb,
             overall_hazard_prediction |->
                overall_hazard_prediction(flood_lb, storm_lb, rain_lb,
                                          wind_lb, eq_lb)]]

\* A failed fetch of the current weather is logged and the location is
\* skipped (lines 228-232)
process_single_location(location_name, feeds) ==
    IF feeds.owm = "fail" THEN NoReading
    ELSE BuildReading(location_name, feeds)

\* The event of the reading for the database
DbEvent(flat_data) ==
    [source |-> "owm_flat_batch", event_type |-> "weather_analytics",
     location |-> flat_data.location,
     overall |-> flat_data.overall_hazard_prediction]

\* fetch_disaster_data: the events of the GDACS feed inside the bounding box,
\* [] on any failure
GdacsEvent ==
    [source |-> "gdacs_rss", event_type |-> "disaster", location |-> 0,
     overall |-> ""]

\* The locations of a cycle are 1..NLocations
NLocations == 2

CollectorIdle ==
    /\ collector_pc = "begin"
    /\ loc_idx = 0
    /\ csv_buffer = <<>>
    /\ db_buffer = <<>>
    /\ fetched = <<>>
    /\ csv_rows_saved = 0
    /\ db_events_written = 0

CollectorInit == CollectorIdle

\* main, lines 303-306: a cycle begins with empty buffers and the GDACS feed
BeginCycle ==
    /\ collector_pc = "begin"
    /\ \E gdacs \in {<<>>, <<GdacsEvent>>} : db_buffer' = gdacs
    /\ csv_buffer' = <<>>
    /\ fetched' = <<>>
    /\ loc_idx' = 0
    /\ collector_pc' = "loop"
    /\ UNCHANGED <<csv_rows_saved, db_events_written>>

\* main, lines 308-316: one location of the loop.  Nothing in main catches
\* an exception of process_single_location: it ends the collector.
ProcessLocation(feeds) ==
    /\ collector_pc = "loop"
    /\ loc_idx < NLocations
    /\ \E r \in {process_single_location(loc_idx + 1, feeds)} :
          IF r.raised
          THEN /\ collector_pc' = "crashed"
               /\ UNCHANGED <<csv_buffer, db_buffer, loc_idx>>
          ELSE /\ IF r.produced
                  THEN /\ csv_buffer' = Append(csv_buffer, r.flat_data)
                       /\ db_buffer' = Append(db_buffer, DbEvent(r.flat_data))
                  ELSE UNCHANGED <<csv_buffer, db_buffer>>
               /\ loc_idx' = loc_idx + 1
               /\ UNCHANGED collector_pc
    /\ fetched' = Append(fetched, feeds)
    /\ UNCHANGED <<csv_rows_saved, db_events_written>>

\* main, lines 318-327: the buffers are saved and the next cycle is awaited
EndCycle ==
    /\ collector_pc = "loop"
    /\ loc_idx = NLocations
    /\ csv_rows_saved' = Len(csv_buffer)
    /\ db_events_written' = Len(db_buffer)
    /\ collector_pc' = "begin"
    /\ UNCHANGED <<loc_idx, csv_buffer, db_buffer, fetched>>

CollectorNext ==
    \/ BeginCycle
    \/ \E feeds \in FeedOutcomes : ProcessLocation(feeds)
    \/ EndCycle

-----------------------------------------------------------------------------
(* The polygon of a zone (process_data_integrated.py, lines 21-34)         *)
(* Coordinates are doubles.  A double of the model is [main, eps]: main in *)
(* 1e-6 degree, and eps, in 1e-18 degree, what the double holds beyond     *)
(* main.  The sine and cosine of the library are not exact at multiples of *)
(* 90 degrees: sin(radians(360.0)) is -2.449e-16 and not 0.                *)

Exact(x) == [main |-> x, eps |-> 0]

\* math.sin and math.cos of math.radians(deg) for deg a multiple of 90: main
\* is the value in units, eps the residue in 1e-18
SinDeg(deg) ==
    CASE deg = 0 -> [main |-> 0, eps |-> 0]
      [] deg = 90 -> [main |-> 1, eps |-> 0]
      [] deg = 180 -> [main |-> 0, eps |-> 122]
      [] deg = 270 -> [main |-> -1, eps |-> 0]
      [] deg = 360 -> [main |-> 0, eps |-> -245]

CosDeg(deg) ==
    CASE deg = 0 -> [main |-> 1, eps |-> 0]
      [] deg = 90 -> [main |-> 0, eps |-> 61]
      [] deg = 180 -> [main |-> -1, eps |-> 0]
      [] deg = 270 -> [main |-> 0, eps |-> -184]
      [] deg = 360 -> [main |-> 1, eps |-> 0]

\* 1000 * math.cos(math.radians(lat)) for the latitudes of the model
CosPermille(lat) ==
    CASE lat = 0 -> 1000 [] lat = 21028500 -> 933 [] lat = 51500000 -> 623

\* Half the spacing of the doubles around x (x in 1e-6 degree), in 1e-18
\* degree: 2^(k-53) for 2^k <= |x| < 2^(k+1); 0 stands for the doubles
\* closer to zero than 0.0625
HalfUlp(x) ==
    LET ax == Abs(x)
    IN  IF ax >= 64000000 THEN 7105
        ELSE IF ax >= 32000000 THEN 3552
        ELSE IF ax >= 16000000 THEN 1776
        ELSE IF ax >= 8000000 THEN 888
        ELSE IF ax >= 4000000 THEN 444
        ELSE IF ax >= 2000000 THEN 222
        ELSE IF ax >= 1000000 THEN 111
        ELSE IF ax >= 500000 THEN 55
        ELSE IF ax >= 250000 THEN 27
        ELSE IF ax >= 125000 THEN 13
        ELSE IF ax >= 62500 THEN 6
        ELSE 0

\* (radius_meters / scale) * t for scale = 111320.0 * cos_permille / 1000
\* and t a sine or cosine: an offset in degrees
Offset(radius_meters, cos_permille, t) ==
    LET visible == (((radius_meters * 100000) \div 11132) * 1000)
                        \div cos_permille
        residue == (radius_meters * Abs(t.eps) * 100)
                        \div (11132 * cos_permille)
    IN  [main |-> t.main * visible,
         eps |-> IF t.main # 0 THEN 0
                 ELSE IF t.eps >= 0 THEN residue ELSE -residue]

\* The double x + d for a double x without residue: an offset below half the
\* spacing of the doubles around x is absorbed, a larger one moves the sum
\* off x
FloatAdd(x, d) ==
    IF d.main # 0 THEN Exact(x + d.main)
    ELSE IF Abs(d.eps) <= HalfUlp(x) THEN Exact(x)
    ELSE [main |-> x, eps |-> d.eps]

PolygonRaised == [raised |-> TRUE, ring |-> <<>>]

\* create_geo_polygon for num_points in {0, 1, 2, 4}: the angles are
\* multiples of 90 degrees; float(i) / 0 raises ZeroDivisionError
create_geo_polygon(lat, lon, radius_meters, num_points) ==
    IF num_points = 0 THEN PolygonRaised
    ELSE [raised |-> FALSE,
          ring |->
            [i \in 1..(num_points + 1) |->
                LET angle == ((i - 1) * 360) \div num_points
                    d_lat == Offset(radius_meters, 1000, CosDeg(angle))
                    d_lon == Offset(radius_meters, CosPermille(lat),
                                    SinDeg(angle))
                IN  <<FloatAdd(lon, d_lon), FloatAdd(lat, d_lat)>>]]

-----------------------------------------------------------------------------
(* The active risks of the events table (core/database.py, lines 44-99)    *)

\* row['raw_data'].get('overall_hazard_prediction', 'Unknown'); a raw_data
\* without the key holds "missing" here
HazardOfRow(row) ==
    IF row.overall_hazard_prediction = "missing" THEN "Unknown"
    ELSE row.overall_hazard_prediction

\* unique_key = f"{loc_name}-{hazard_type}": the three parts of the string.
\* The hazard names hold no hyphen, so the string determines its parts.
UniqueKey(row) == <<row.title, "-", HazardOfRow(row)>>

\* A loop that lets a later row of a key replace the earlier one.
UniqueResults_last_wins(raw_results) ==
    SelectPositions(raw_results,
        {i \in 1..Len(raw_results) :
            \A j \in (i + 1)..Len(raw_results) :
                UniqueKey(raw_results[j]) # UniqueKey(raw_results[i])})

\* The loop of lines 78-88: the rows whose key no earlier row has
UniqueResults(raw_results) ==
    SelectPositions(raw_results,
        {i \in 1..Len(raw_results) :
            \A j \in 1..(i - 1) : UniqueKey(raw_results[j]) # UniqueKey(raw_results[i])})

\* get_active_risks.  db is what the database does: "ok", "no_connection"
\* (get_db_connection returns None) or "query_error" (execute raises).
\* matching is the rows of the last 24 hours, within the radius when a
\* position is given, in the order of ORDER BY event_time DESC.
get_active_risks(db, matching, position_given, limit) ==
    IF db # "ok" THEN <<>>
    ELSE LET raw_results == IF position_given THEN matching
                            ELSE Take(matching, limit * 2)
         IN  Take(UniqueResults(raw_results), limit)

-----------------------------------------------------------------------------
(* Calls of the functions on arguments of their domains                    *)

\* The names predict_overall_hazard returns (DEFAULT_MAP and "Unknown")
PredictedHazards ==
    {"No", "Rain", "Storm", "Wind", "Flood", "Earthquake", "Unknown"}

\* raw_data of a row: the labels, with the label of the hazard named, and
\* the two readings the score looks at
RawData(predicted_hazard, label, rain_label, wind_speed, humidity) ==
    LET base == [rain_label |-> rain_label, wind_label |-> "no",
                 storm_label |-> "no", flood_label |-> "no",
                 earthquake_label |-> "no",
                 wind_speed |-> wind_speed, humidity |-> humidity]
    IN  CASE predicted_hazard = "Rain" -> [base EXCEPT !.rain_label = label]
          [] predicted_hazard = "Wind" -> [base EXCEPT !.wind_label = label]
          [] predicted_hazard = "Storm" -> [base EXCEPT !.storm_label = label]
          [] predicted_hazard = "Flood" -> [base EXCEPT !.flood_label = label]
          [] predicted_hazard = "Earthquake" ->
                 [base EXCEPT !.earthquake_label = label]
          [] OTHER -> base

ScoreRowCalls ==
    { [fn |-> "score_row",
       args |-> [raw_data |-> RawData(h, l, r, w, u), predicted_hazard |-> h]] :
        h \in PredictedHazards, l \in HazardLabels, r \in {"no", "low", "high"},
        w \in {0, 5, 6}, u \in {90, 91} }

\* Scores given to get_risk_classification lie within ScoreMargin of [0, 100]
ScoreMargin == 20

ClassificationCalls ==
    { [fn |-> "get_risk_classification", args |-> [safety_score |-> n]] :
        n \in (0 - ScoreMargin)..(100 + ScoreMargin) }

\* How far ahead of the clock an issue time of the model can be, in hours
MaxHoursAhead == 20

\* calculate_priority on a severity, a population (0: unknown), an intensity
\* in hundredths and an issue time from MaxHoursAhead ahead of the clock to
\* 25 hours behind it
PriorityCalls ==
    { [fn |-> "calculate_priority",
       args |-> [severity |-> v, affected_population |-> n, intensity |-> x,
                 issued_at |-> CurrentHour - h]] :
        v \in {"high", "medium", "low", "critical"},
        n \in {0, 1000, 10000, 100000, 200000},
        x \in {-150, 0, 50, 100, 200},
        h \in {-MaxHoursAhead, -1, 0, 1, 19, 20, 25} }

\* The forecast's resolver on any five labels
RuleCalls ==
    { [fn |-> "overall_hazard_prediction_rule", args |-> ls] :
        ls \in [HazardKinds -> HazardLabels] }

\* The largest class id a prediction of the model decodes to
MaxLabelId == 6

\* predict_overall_hazard on the artifacts found at construction and on an
\* input: whether building the row throws, and what inference gives
PredictCalls ==
    { [fn |-> "predict_overall_hazard",
       args |-> [artifacts |-> [model_file |-> f, features_from |-> g,
                                encoder_file |-> e],
                 input_data |-> [prepare_throws |-> p, inference_throws |-> t,
                                 label_id |-> i]]] :
        f \in {"missing", "corrupt", "ok"},
        g \in {"model", "file", "file_corrupt", "none"},
        e \in {"missing", "ok", "corrupt"}, p \in BOOLEAN, t \in BOOLEAN, i \in -1..MaxLabelId }

\* preprocess_value on each kind of value, with the defaults and precisions
\* process_single_location passes; the numbers are in thousandths
PreprocessCalls ==
    { [fn |-> "preprocess_value",
       args |-> [val |-> v, default |-> d.default, precision |-> d.precision]] :
        v \in {None, Unparsable, HugeInt, NaN}
                \cup {Some(x) : x \in {-1004, -125, 0, 125, 12344, 30460}},
        d \in {[default |-> -990, precision |-> 1],
               [default |-> -1, precision |-> 0],
               [default |-> 0, precision |-> 2],
               [default |-> -100, precision |-> 2]} }

\* process_single_location on every outcome of the four fetches
ReadingCalls ==
    { [fn |-> "process_single_location", args |-> feeds] :
        feeds \in FeedOutcomes }

\* Values of the cleaned fields on both sides of every threshold of the
\* labelers, with the sentinel -1.0 and a negative value: hundredths, the
\* pressure in hPa
Grid ==
    [gust6 |-> {-100, 0, 500, 501, 800, 801, 1000, 1001, 1200, 1201, 1800,
                1801, 2500, 2501},
     p6 |-> {-100, 0, 100, 101, 1000, 1001, 2500, 2501, 4000, 4001},
     p24 |-> {-100, 0, 300, 301, 2000, 2001, 5000, 5001, 8000, 8001},
     river |-> {-200, -100, 0, 50000, 50001, 200000, 200001, 500000, 500001,
                800000, 800001},
     mag |-> {-100, 0, 449, 450, 499, 500, 549, 550, 599, 600, 700},
     dist |-> {-100, 0, 15000, 15001, 30000, 30001, 50000, 50001, 80000,
               80001},
     pressure |-> {-1, 985, 989, 990, 994, 995, 999, 1000, 1013},
     weather_desc |-> {"", "heavy intensity rain", "thunderstorm"}]

\* The five labelers on the values of the grids
LabelCalls ==
    { [fn |-> "label_rain", args |-> [p6 |-> a, p24 |-> b]] :
        a \in Grid.p6, b \in Grid.p24 }
    \cup { [fn |-> "label_wind", args |-> [gust6 |-> g]] : g \in Grid.gust6 }
    \cup { [fn |-> "label_flood", args |-> [river |-> r]] : r \in Grid.river }
    \cup { [fn |-> "label_earthquake", args |-> [mag |-> a, dist |-> d]] :
             a \in Grid.mag, d \in Grid.dist }
    \cup { [fn |-> "label_storm",
            args |-> [gust6 |-> g, p6 |-> x[1], p24 |-> x[2], wind |-> 1234,
                      pressure |-> q, weather_desc |-> w]] :
             g \in Grid.gust6,
             x \in {<<0, 0>>, <<101, 0>>, <<0, 2001>>, <<2501, 301>>,
                    <<4001, 0>>, <<-100, 8001>>},
             q \in Grid.pressure, w \in Grid.weather_desc }

\* create_geo_polygon on centers in Viet Nam, in London and on the prime
\* meridian, in 1e-6 degree, and on the radii of the zones
PolygonCalls ==
    { [fn |-> "create_geo_polygon",
       args |-> [lat |-> c[1], lon |-> c[2], radius_meters |-> r,
                 num_points |-> n]] :
        c \in {<<21028500, 105854200>>, <<51500000, -120000>>,
               <<21028500, 0>>, <<0, 300000>>, <<21028500, 200000>>},
        r \in {0, 3000, 7500}, n \in {0, 1, 2, 4} }

\* Where a reading is taken, in 1e-4 degree north of the user: 0 m, 4992 m,
\* 9996 m and 49993 m away
PublishOffsets == {0, 449, 899, 4496}

\* A reading of any five labels and any predicted hazard
PublishCalls ==
    { [fn |-> "publish_row",
       args |-> [raw_data |-> [rain_label |-> ls["rain"], wind_label |-> ls["wind"],
                               storm_label |-> ls["storm"],
                               flood_label |-> ls["flood"],
                               earthquake_label |-> ls["earthquake"]],
                 predicted |-> h]] :
        ls \in [HazardKinds -> HazardLabels], h \in PredictedHazards }

\* The most rows of the events table a call of get_active_risks matches
MaxMatching == 4

\* event_time of the matching rows by position, latest first, two of them
\* of the same hour
MatchingTime(i) == CurrentHour - (i \div 2)

\* get_active_risks on any matching rows of two places, with and without
\* the hazard in raw_data
ActiveRiskCalls ==
    UNION { { [fn |-> "get_active_risks",
               args |-> [db |-> db,
                         matching |-> [i \in 1..n |->
                             [id |-> i, title |-> f[i][1], event_time |-> MatchingTime(i),
                              overall_hazard_prediction |-> f[i][2]]],
                         position_given |-> g, limit |-> l]] :
                f \in [1..n -> {"Hanoi", "Da Nang"} \X {"Flood", "missing"}],
                db \in IF n = 2 THEN {"ok", "no_connection", "query_error"}
                       ELSE {"ok"},
                g \in BOOLEAN, l \in 1..3 }
            : n \in 0..MaxMatching }

Calls ==
    ScoreRowCalls \cup ClassificationCalls \cup PriorityCalls \cup RuleCalls
        \cup PredictCalls \cup PreprocessCalls \cup ReadingCalls
        \cup LabelCalls \cup PolygonCalls \cup PublishCalls \cup ActiveRiskCalls

NoCall == [fn |-> "none", args |-> <<>>]

NoResult == [returned |-> FALSE, value |-> <<>>]

Returned(v) == [returned |-> TRUE, value |-> v]

CallsIdle == call = NoCall /\ result = NoResult

CallsInit == call \in Calls /\ result = NoResult

\* One row of the loop of run_processing_pipeline
CallScoreRow ==
    /\ call.fn = "score_row" /\ ~result.returned
    /\ result' = Returned(ScoreRow(call.args.raw_data, call.args.predicted_hazard))
    /\ UNCHANGED call

CallClassification ==
    /\ call.fn = "get_risk_classification" /\ ~result.returned
    /\ result' = Returned(get_risk_classification(call.args.safety_score))
    /\ UNCHANGED call

CallPriority ==
    /\ call.fn = "calculate_priority" /\ ~result.returned
    /\ result' = Returned(calculate_priority(call.args.severity,
                              call.args.affected_population, call.args.issued_at,
                              call.args.intensity, CurrentHour))
    /\ UNCHANGED call

\* forecast_7_days, lines 355-357
CallRule ==
    /\ call.fn = "overall_hazard_prediction_rule" /\ ~result.returned
    /\ result' = Returned(overall_hazard_prediction_rule(
                              call.args["flood"], call.args["storm"],
                              call.args["rain"], call.args["wind"],
                              call.args["earthquake"]))
    /\ UNCHANGED call

\* run_processing_pipeline, lines 65 and 95
CallPredict ==
    /\ call.fn = "predict_overall_hazard" /\ ~result.returned
    /\ result' = Returned(predict_overall_hazard(LoadModel(call.args.artifacts),
                                                 call.args.input_data))
    /\ UNCHANGED call

\* process_single_location, lines 239-251
CallPreprocess ==
    /\ call.fn = "preprocess_value" /\ ~result.returned
    /\ result' = Returned(preprocess_value(call.args.val, call.args.default,
                                           call.args.precision))
    /\ UNCHANGED call

\* main, line 311
CallProcessLocation ==
    /\ call.fn = "process_single_location" /\ ~result.returned
    /\ result' = Returned(process_single_location(1, call.args))
    /\ UNCHANGED call

\* process_single_location, lines 254-258
CallLabeler ==
    /\ call.fn \in {"label_rain", "label_wind", "label_storm", "label_flood",
                    "label_earthquake"}
    /\ ~result.returned
    /\ result' = Returned(
          CASE call.fn = "label_rain" ->
                  label_rain(call.args.p6, call.args.p24)
            [] call.fn = "label_wind" -> label_wind(call.args.gust6)
            [] call.fn = "label_storm" ->
                  label_storm(call.args.gust6, call.args.p6, call.args.p24,
                              call.args.wind, call.args.pressure,
                              call.args.weather_desc)
            [] call.fn = "label_flood" -> label_flood(call.args.river)
            [] call.fn = "label_earthquake" ->
                  label_earthquake(call.args.mag, call.args.dist))
    /\ UNCHANGED call

\* run_processing_pipeline, line 117
CallPolygon ==
    /\ call.fn = "create_geo_polygon" /\ ~result.returned
    /\ result' = Returned(create_geo_polygon(call.args.lat, call.args.lon,
                                              call.args.radius_meters,
                                              call.args.num_points))
    /\ UNCHANGED call

\* The feature run_processing_pipeline publishes for a row (lines 91-140)
\* taken at each of the places, and the alerts get_nearby_alerts derives from
\* a snapshot holding it (alerts.py, lines 283-297)
PublishRow(raw_data, predicted) ==
    [off \in PublishOffsets |->
        Only({ [feature |-> feature,
                nearby |-> AllNearby(<<feature>>, User.lat, User.lng,
                                     ALL_NEARBY_RADIUS, CurrentHour)]
               : feature \in {BuildFeature(
                     [id |-> 1, title |-> [tag |-> predicted, loc |-> "Hanoi"],
                      predicted |-> predicted, raw_data |-> raw_data,
                      event_time |-> CurrentHour - 1,
                      lat |-> User.lat + off, lon |-> User.lng])} })]

CallPublish ==
    /\ call.fn = "publish_row" /\ ~result.returned
    /\ result' = Returned(PublishRow(call.args.raw_data, call.args.predicted))
    /\ UNCHANGED call

\* get_user_alerts and the live data endpoint
CallActiveRisks ==
    /\ call.fn = "get_active_risks" /\ ~result.returned
    /\ result' = Returned(get_active_risks(call.args.db, call.args.matching,
                                            call.args.position_given,
                                            call.args.limit))
    /\ UNCHANGED call

CallsNext ==
    \/ CallActiveRisks
    \/ CallPublish
    \/ CallPolygon
    \/ CallLabeler
    \/ CallPreprocess
    \/ CallProcessLocation
    \/ CallPredict
    \/ CallRule
    \/ CallScoreRow
    \/ CallClassification
    \/ CallPriority

-----------------------------------------------------------------------------
(* The WebSocket hub (routers/alerts.py, lines 39-59 and 421-474)           *)

\* user_id values of the clients
UserIds == {"u1", "u2"}

\* The WebSocket objects of the connections the server accepts
WebSockets == {"ws1", "ws2", "ws3"}

\* ConnectionManager.__init__ and later: no connection, no registration
SocketsIdle ==
    /\ sockets = [w \in WebSockets |-> "closed"]
    /\ active_connections = [u \in UserIds |-> "none"]
    /\ reached = {}

SocketsInit == SocketsIdle

\* manager.connect
connect(websocket, user_id) ==
    active_connections' = [active_connections EXCEPT ![user_id] = websocket]

\* manager.disconnect
disconnect(user_id) ==
    active_connections' =
        IF active_connections[user_id] # "none"
        THEN [active_connections EXCEPT ![user_id] = "none"]
        ELSE active_connections

\* websocket_endpoint up to its receive loop: a client opens a connection
\* with a user_id, the manager accepts and registers it.
OpenSocket(websocket, user_id) ==
    /\ sockets[websocket] = "closed"
    /\ sockets' = [sockets EXCEPT ![websocket] = user_id]
    /\ connect(websocket, user_id)
    /\ UNCHANGED reached

\* websocket_endpoint, lines 445-448: the client of a connection goes away,
\* receive_json raises and the handler calls manager.disconnect(user_id).
CloseSocket(websocket) ==
    /\ sockets[websocket] # "closed"
    /\ disconnect(sockets[websocket])
    /\ sockets' = [sockets EXCEPT ![websocket] = "closed"]
    /\ UNCHANGED reached

\* manager.broadcast, called by broadcast_alert
Broadcast ==
    /\ reached' = {active_connections[u] : u \in UserIds} \ {"none"}
    /\ UNCHANGED <<sockets, active_connections>>

SocketsNext ==
    \/ \E w \in WebSockets, u \in UserIds : OpenSocket(w, u)
    \/ \E w \in WebSockets : CloseSocket(w)
    \/ Broadcast

-----------------------------------------------------------------------------
(* Specifications                                                          *)

\* The processing pass and the readers of its file
Init ==
    /\ PipeInit /\ ResolverIdle /\ AlertsIdle /\ CallsIdle /\ ForecastIdle
    /\ CollectorIdle /\ SocketsIdle

Next ==
    PipeNext
        /\ UNCHANGED <<resolverVars, alertVars, callVars, forecastVars,
                       collectorVars, socketVars>>

Spec == Init /\ [][Next]_vars

\* The resolver on any five labels
InitResolver ==
    /\ PipeIdle /\ ResolverInit /\ AlertsIdle /\ CallsIdle /\ ForecastIdle
    /\ CollectorIdle /\ SocketsIdle

NextResolver ==
    Resolve
        /\ UNCHANGED <<pipeVars, alertVars, callVars, forecastVars, collectorVars,
                       socketVars>>

SpecResolver == InitResolver /\ [][NextResolver]_vars

\* The alert queries on any snapshot
InitAlerts ==
    /\ PipeIdle /\ ResolverIdle /\ AlertsInit /\ CallsIdle /\ ForecastIdle
    /\ CollectorIdle /\ SocketsIdle

NextAlerts ==
    AlertsNext
        /\ UNCHANGED <<pipeVars, resolverVars, callVars, forecastVars,
                       collectorVars, socketVars>>

SpecAlerts == InitAlerts /\ [][NextAlerts]_vars

\* The functions, each on arguments of its domain
InitCalls ==
    /\ PipeIdle /\ ResolverIdle /\ AlertsIdle /\ CallsInit /\ ForecastIdle
    /\ CollectorIdle /\ SocketsIdle

NextCalls ==
    CallsNext
        /\ UNCHANGED <<pipeVars, resolverVars, alertVars, forecastVars,
                       collectorVars, socketVars>>

SpecCalls == InitCalls /\ [][NextCalls]_vars

\* The forecast endpoint over time
InitForecast ==
    /\ PipeIdle /\ ResolverIdle /\ AlertsIdle /\ CallsIdle /\ ForecastInit
    /\ CollectorIdle /\ SocketsIdle

NextForecast ==
    ForecastNext
        /\ UNCHANGED <<pipeVars, resolverVars, alertVars, callVars,
                       collectorVars, socketVars>>

SpecForecast == InitForecast /\ [][NextForecast]_vars

\* The collector over its cycles
InitCollector ==
    /\ PipeIdle /\ ResolverIdle /\ AlertsIdle /\ CallsIdle /\ ForecastIdle
    /\ CollectorInit /\ SocketsIdle

NextCollector ==
    CollectorNext
        /\ UNCHANGED <<pipeVars, resolverVars, alertVars, callVars, forecastVars,
                       socketVars>>

SpecCollector == InitCollector /\ [][NextCollector]_vars

\* The processing passes under triggers that arrive at any time
NextOverlap ==
    OverlapNext
        /\ UNCHANGED <<resolverVars, alertVars, callVars, forecastVars,
                       collectorVars, socketVars>>

SpecOverlap == Init /\ [][NextOverlap]_vars

\* The WebSocket hub under connects, disconnects and broadcasts
InitSockets ==
    /\ PipeIdle /\ ResolverIdle /\ AlertsIdle /\ CallsIdle /\ ForecastIdle
    /\ CollectorIdle /\ SocketsInit

NextSockets ==
    SocketsNext
        /\ UNCHANGED <<pipeVars, resolverVars, alertVars, callVars, forecastVars,
                       collectorVars>>

SpecSockets == InitSockets /\ [][NextSockets]_vars

-----------------------------------------------------------------------------
(* Claims about the processing pass and the snapshot file                  *)

\* C1: while a pass is writing the snapshot file, a reader never observes a
\* partially written or truncated snapshot: every read returns either the
\* complete previous snapshot or the complete new one.
C1_ReadersSeeCompleteSnapshot ==
    lastRead.ep # "none" =>
        /\ lastRead.status # "error"
        /\ lastRead.features \in lastRead.accept

\* C2: a pass that fails at any step leaves the snapshot file exactly as it
\* was when the pass began.
C2_FailedPassLeavesSnapshot ==
    \A p \in Passes : pc[p] = "failed" => file = before[p]

\* C3: once the passes triggered so far have ended, the file holds the
\* output of the last pass that completed: one feature per row that pass
\* fetched (weather_analytics events of the last 24 hours, at most 100),
\* in order, with the row's id and center; none for an empty fetch.
C3_SnapshotIsLastCompletedOutput ==
    ((\A p \in Passes : pc[p] \notin Running) /\ published.any) =>
        /\ file.exists
        /\ IsCompleteDump(file.chunks)
        /\ ParsedFeatures(file.chunks) = published.features
        /\ Len(published.features) = Len(publishedRows)
        /\ Len(publishedRows) <= QUERY_LIMIT
        /\ \A i \in 1..Len(publishedRows) :
              /\ published.features[i].id = publishedRows[i].id
              /\ published.features[i].center =
                     <<publishedRows[i].lat, publishedRows[i].lon>>
              /\ publishedRows[i].event_type = "weather_analytics"
              /\ publishedRows[i].event_time >= CurrentHour - QUERY_WINDOW_HOURS

-----------------------------------------------------------------------------
(* Claims about the resolver                                               *)

\* The positions in HAZARD_PRIORITY of the kinds labelled mid or above
Qualifying(ls) ==
    {i \in 1..Len(HAZARD_PRIORITY) :
        ls[HAZARD_PRIORITY[i]] \in {"mid", "mid-high", "high"}}

\* C4: overall_hazard_prediction returns the capitalized name of the last
\* kind in [wind, rain, storm, flood, earthquake] whose label is mid or
\* above, and "No" when no kind is; wind = high with earthquake = mid-high
\* resolves to "Earthquake".
C4_ResolverLastQualifyingWins ==
    resolved # "unset" =>
        /\ Qualifying(labels) = {} => resolved = "No"
        /\ Qualifying(labels) # {} =>
              LET last == CHOOSE i \in Qualifying(labels) :
                              \A j \in Qualifying(labels) : j <= i
              IN  resolved = Capitalize(HAZARD_PRIORITY[last])
        /\ (labels["wind"] = "high" /\ labels["earthquake"] = "mid-high")
              => resolved = "Earthquake"

C4_Witness ==
    /\ labels["wind"] = "high"
    /\ labels["earthquake"] = "mid-high"
    /\ resolved = "Earthquake"

-----------------------------------------------------------------------------
(* Claims about the alert queries (SpecAlerts)                             *)

\* The true distance, in metres, from the user to an alert or a zone
TrueDistance(alert) ==
    haversine_distance(User.lat, User.lng, alert.location.coordinates[1],
                       alert.location.coordinates[2])

ZoneDistance(zone) ==
    haversine_distance(User.lat, User.lng, zone.center[1], zone.center[2])

NoDuplicateKey(alerts) ==
    \A i, j \in 1..Len(alerts) :
        (/\ alerts[i].location.province = alerts[j].location.province
         /\ alerts[i].title.hazard = alerts[j].title.hazard) => i = j

\* C5: the lists national, nearby and all return hold at most one alert per
\* (location name, hazard type): zones sharing both collapse to one alert.
C5_OneAlertPerLocationAndHazard ==
    /\ NoDuplicateKey(response.data)
    /\ NoDuplicateKey(response.national)
    /\ NoDuplicateKey(response.nearby)

\* C6: nearby returns every alert within the radius that is neither of
\* category weather nor of severity safe, by ascending distance, when there
\* is one; else the single closest alert within the radius when there is
\* one; else nothing.
C6_SmartNearbySelection ==
    request.op = "nearby" =>
        LET data == response.data
            within == {i \in 1..Len(snapshot) :
                          ZoneDistance(snapshot[i]) <= request.radius}
            hazards == {i \in within :
                          LET a == convert_risk_zone_to_alert(snapshot[i], i - 1,
                                                              CurrentHour)
                          IN  a.category # "weather" /\ a.severity # "safe"}
        IN  IF hazards # {}
            THEN /\ {data[k].id : k \in 1..Len(data)} = hazards
                 /\ Len(data) = Cardinality(hazards)
                 /\ \A k, l \in 1..Len(data) :
                        k < l => TrueDistance(data[k]) <= TrueDistance(data[l])
            ELSE IF within # {}
            THEN /\ Len(data) = 1
                 /\ data[1].id \in within
                 /\ \A i \in within :
                        TrueDistance(data[1]) <= ZoneDistance(snapshot[i])
            ELSE data = <<>>

IsSafeZoneAt2km(zone) ==
    zone.hazard_type = "No" /\ RoundToTenthKm(ZoneDistance(zone)) = 20

IsHazardZoneAt40km(zone, kinds) ==
    /\ zone.hazard_type \in kinds
    /\ zone.risk_level # "No"
    /\ RoundToTenthKm(ZoneDistance(zone)) = 400

\* nearby with radius 50 km on the safe zone and a hazard zone of one of the
\* kinds returns the alert of the zone `shown`.
ScenarioReturns(kinds, shown) ==
    (request.op = "nearby" /\ request.radius = 50000 /\ Len(snapshot) = 2) =>
        \A s, h \in 1..2 :
            (/\ IsSafeZoneAt2km(snapshot[s])
             /\ IsHazardZoneAt40km(snapshot[h], kinds)) =>
                /\ Len(response.data) = 1
                /\ response.data[1].id = (IF shown = "hazard" THEN h ELSE s)

\* nearby with radius 50 km returns exactly the safe zone when no other zone
\* lies within 50 km.
SafeZoneAloneIsReturned ==
    (request.op = "nearby" /\ request.radius = 50000) =>
        \A s \in 1..Len(snapshot) :
            (/\ IsSafeZoneAt2km(snapshot[s])
             /\ \A i \in 1..Len(snapshot) :
                    i # s => ZoneDistance(snapshot[i]) > 50000) =>
                /\ Len(response.data) = 1
                /\ response.data[1].id = s

\* C7, as stated: with a safe zone at 2 km and a hazard zone at 40 km of any
\* kind (Rain, Wind, Storm, Flood, Earthquake), nearby with radius 50 km
\* returns only the hazard zone; with the safe zone alone it returns it.
C7_AnyHazardHidesSafeZone ==
    /\ ScenarioReturns({"Rain", "Wind", "Storm", "Flood", "Earthquake"}, "hazard")
    /\ SafeZoneAloneIsReturned

\* C7, amended: the hazard zone is returned alone when its kind is Flood or
\* Earthquake (category disaster); when its kind is Rain, Wind or Storm
\* (category weather) the safe zone, the closest, is returned alone; with
\* the safe zone alone within 50 km it is returned.
C7_DisasterHidesSafeZone ==
    /\ ScenarioReturns({"Flood", "Earthquake"}, "hazard")
    /\ ScenarioReturns({"Rain", "Wind", "Storm"}, "safe")
    /\ SafeZoneAloneIsReturned

C7_Witness ==
    /\ request.op = "nearby" /\ request.radius = 50000
    /\ Len(snapshot) = 2
    /\ IsSafeZoneAt2km(snapshot[1])
    /\ IsHazardZoneAt40km(snapshot[2], {"Flood"})
    /\ Len(response.data) = 1
    /\ response.data[1].title.hazard = "Flood"

\* C8: every alert nearby returns lies within the radius of the user, and
\* nearby returns one whenever a zone does; should_notify is true exactly
\* for severity high under 10 km and severity medium under 5 km, and false
\* for severity low.
C8_RadiusAndShouldNotify ==
    request.op = "nearby" =>
        /\ \A k \in 1..Len(response.data) :
              LET a == response.data[k]
                  d == TrueDistance(a)
              IN  /\ d <= request.radius
                  /\ a.should_notify <=> \/ (a.severity = "high" /\ d < 10000)
                                         \/ (a.severity = "medium" /\ d < 5000)
                  /\ a.severity = "low" => ~a.should_notify
        /\ response.data = <<>> <=>
              \A i \in 1..Len(snapshot) :
                  ZoneDistance(snapshot[i]) > request.radius

C8_Witness ==
    /\ request.op = "nearby"
    /\ \E k, l \in 1..Len(response.data) :
          /\ response.data[k].should_notify
          /\ response.data[l].severity = "high"
          /\ ~response.data[l].should_notify

\* C9: the combined list of all is the union, by alert id, of its nearby
\* list and of the national list (the 20 alerts of the category of highest
\* priority); an id of both is the nearby entry, with its distance; the list
\* is ordered by ascending distance, then descending priority, entries
\* without distance last; total is the size of the union and at most limit
\* entries are returned.
C9_CombinedIsUnionOfNearbyAndNational ==
    request.op = "all" =>
        LET national == get_national_alerts(snapshot, ALL_NATIONAL_LIMIT, "None",
                                            request.category, CurrentHour).data
            nearby == response.nearby
            combined == response.data
            union == {nearby[k].id : k \in 1..Len(nearby)}
                       \cup {national[k].id : k \in 1..Len(national)}
        IN  /\ response.total = Cardinality(union)
            /\ Len(combined) = (IF response.total < request.limit
                                THEN response.total ELSE request.limit)
            /\ \A k \in 1..Len(combined) : combined[k].id \in union
            /\ \A k, l \in 1..Len(combined) :
                  combined[k].id = combined[l].id => k = l
            /\ \A k \in 1..Len(combined) :
                  (\E l \in 1..Len(nearby) : nearby[l].id = combined[k].id)
                      => combined[k].has_distance
            /\ \A k, l \in 1..Len(combined) :
                  k < l =>
                      /\ combined[l].has_distance => combined[k].has_distance
                      /\ (combined[k].has_distance /\ combined[l].has_distance) =>
                            \/ combined[k].distance_km < combined[l].distance_km
                            \/ /\ combined[k].distance_km = combined[l].distance_km
                               /\ combined[k].priority >= combined[l].priority

\* C10: the severity of an alert is high for a zone of risk level Critical
\* or High Risk, medium for Medium Risk, low for Low Risk or Info, and it is
\* always one of high, medium, low.
C10_SeverityFromRiskLevel ==
    \A alerts \in {response.data, response.national, response.nearby} :
        \A k \in 1..Len(alerts) :
            LET severity == alerts[k].severity
                risk_level == snapshot[alerts[k].id].risk_level
            IN  /\ severity \in {"high", "medium", "low"}
                /\ risk_level \in {"Critical", "High Risk"} => severity = "high"
                /\ risk_level = "Medium Risk" => severity = "medium"
                /\ risk_level \in {"Low Risk", "Info"} => severity = "low"

C10_Witness ==
    /\ request.op = "national"
    /\ \E k, l \in 1..Len(response.data) :
          /\ snapshot[response.data[k].id].risk_level = "Critical"
          /\ response.data[k].severity = "high"
          /\ snapshot[response.data[l].id].risk_level = "Medium Risk"
          /\ response.data[l].severity = "medium"

-----------------------------------------------------------------------------
(* Claims about the scoring of a row (SpecCalls)                           *)

ScoredRow == call.fn = "score_row" /\ result.returned

\* C11: the radius of a zone is 3000 + intensity * 1500 for the hazard Storm
\* or Wind, 3000 + intensity * 3000 for Earthquake, 3000 + intensity * 1 for
\* Flood and 3000 otherwise, intensity being map_intensity_for_radius of the
\* zone's risk level (in tenths here) and the sum cut to an integer.
C11_RadiusByHazardType ==
    ScoredRow =>
        LET hazard == result.value.hazard_type
            intensity == map_intensity_for_radius(result.value.risk_level)
        IN  result.value.radius =
                IF hazard \in {"Storm", "Wind"}
                THEN (30000 + intensity * 1500) \div 10
                ELSE IF hazard = "Earthquake"
                THEN (30000 + intensity * 3000) \div 10
                ELSE IF hazard = "Flood"
                THEN (30000 + intensity * 1) \div 10
                ELSE 3000

\* C12: the safety score is 100 less one term for the risk level (70 for
\* High, 50 for Mid-high, 30 for Mid, 10 for Low, 0 otherwise), less 5 for a
\* rain label other than "no", 5 for wind_speed > 5 and 2 for humidity > 90.
C12_SafetyScoreDeductions ==
    ScoredRow =>
        LET risk_level == result.value.risk_level
            weather_data == call.args.raw_data
            term == CASE risk_level = "High" -> 70
                      [] risk_level = "Mid-high" -> 50
                      [] risk_level = "Mid" -> 30
                      [] risk_level = "Low" -> 10
                      [] OTHER -> 0
        IN  result.value.safety_score =
                100 - term
                    - (IF weather_data.rain_label # "no" THEN 5 ELSE 0)
                    - (IF weather_data.wind_speed > 5 THEN 5 ELSE 0)
                    - (IF weather_data.humidity > 90 THEN 2 ELSE 0)

\* C13: the safety score of a zone is in [0, 100], whatever the risk level
\* and the reading.
C13_SafetyScoreInRange ==
    ScoredRow => result.value.safety_score \in 0..100

C13_Witness ==
    /\ ScoredRow
    /\ result.value.risk_level = "High"
    /\ call.args.raw_data.rain_label # "no"
    /\ call.args.raw_data.wind_speed > 5
    /\ call.args.raw_data.humidity > 90
    /\ result.value.safety_score = 18

\* C16: get_risk_classification gives exactly one tier: Info (#28A745) iff
\* score >= 80, Low (#FFC107) iff 50 <= score < 80, Medium (#FF8C00) iff
\* 25 <= score < 50, High (#FF0000) iff score < 25, a score outside [0, 100]
\* counting as the nearest bound.
C16_ClassificationPartition ==
    (call.fn = "get_risk_classification" /\ result.returned) =>
        LET given == call.args.safety_score
            score == IF given < 0 THEN 0 ELSE IF given > 100 THEN 100 ELSE given
            tier == result.value
        IN  /\ tier \in { [level |-> "Info", color_code |-> "#28A745"],
                          [level |-> "Low", color_code |-> "#FFC107"],
                          [level |-> "Medium", color_code |-> "#FF8C00"],
                          [level |-> "High", color_code |-> "#FF0000"] }
            /\ tier.level = "Info" <=> score >= 80
            /\ tier.level = "Low" <=> (50 <= score /\ score < 80)
            /\ tier.level = "Medium" <=> (25 <= score /\ score < 50)
            /\ tier.level = "High" <=> score < 25

C16_Witness ==
    /\ call.fn = "get_risk_classification" /\ result.returned
    /\ call.args.safety_score = 80
    /\ result.value.level = "Info"

-----------------------------------------------------------------------------
(* Claims about the priority (SpecCalls)                                   *)

PriorityReturned == call.fn = "calculate_priority" /\ result.returned

\* C14: the priority is an integer in 0..100 for every severity, population,
\* intensity and issue time, an issue time later than the clock included.
C14_PriorityInRange ==
    PriorityReturned => result.value \in 0..100

-----------------------------------------------------------------------------
(* Claims about the forecast variant (SpecCalls)                           *)

\* C17: on any five labels the forecast's resolver returns what the
\* resolver of the collector returns: the last kind of wind, rain, storm,
\* flood, earthquake labelled mid or above, or "No" when there is none.
C17_RuleResolverAgreesWithResolver ==
    (call.fn = "overall_hazard_prediction_rule" /\ result.returned) =>
        /\ result.value = overall_hazard_prediction(
                              call.args["flood"], call.args["storm"],
                              call.args["rain"], call.args["wind"],
                              call.args["earthquake"])
        /\ result.value =
              IF Qualifying(call.args) = {} THEN "No"
              ELSE Capitalize(HAZARD_PRIORITY[Max(Qualifying(call.args))])

-----------------------------------------------------------------------------
(* Claims about the forecast cache (SpecForecast)                          *)

ForecastRequested == lastForecast.status \in {"cached", "generated", "failed"}

\* Seconds from the stamp of the entry the request found to the request
EntryAge == (lastForecast.at - lastForecast.before.ts) * SECONDS_PER_TICK

\* A request finding an entry of its key younger than 600 s is served that
\* entry, the generator is not called and the entry stays.
FreshEntryIsServed ==
    (ForecastRequested /\ lastForecast.before.present /\ EntryAge < 600) =>
        /\ lastForecast.status = "cached"
        /\ ~lastForecast.called
        /\ lastForecast.df = lastForecast.before.df
        /\ forecast_cache[lastForecast.key] = lastForecast.before

\* No request is served an entry that is 600 s old or older, or no entry.
StaleEntryIsNeverServed ==
    (ForecastRequested /\ lastForecast.status = "cached") =>
        lastForecast.before.present /\ EntryAge < 600

\* C18, as stated: a request for a key within 600 s of the computation of
\* its entry is served the entry without a call of the generator; a request
\* at 600 s or later recomputes the forecast and replaces the entry; an
\* entry 600 s old or older is never served.
C18_CacheServesWithinTtlAndReplacesAfter ==
    /\ FreshEntryIsServed
    /\ StaleEntryIsNeverServed
    /\ (ForecastRequested /\ lastForecast.before.present /\ EntryAge >= 600) =>
          /\ lastForecast.called
          /\ forecast_cache[lastForecast.key] =
                [present |-> TRUE, ts |-> lastForecast.at, df |-> lastForecast.df]
          /\ lastForecast.df.made_at = lastForecast.at

\* C18, amended: a request at 600 s or later calls the generator; when the
\* generator returns, its result replaces the entry, stamped with the time
\* of the request; when it raises, the request fails and the entry stays as
\* it was, never to be served.
C18_CacheServesWithinTtlAndReplacesOnSuccess ==
    /\ FreshEntryIsServed
    /\ StaleEntryIsNeverServed
    /\ (ForecastRequested /\ lastForecast.before.present /\ EntryAge >= 600) =>
          /\ lastForecast.called
          /\ lastForecast.status = "generated" =>
                /\ forecast_cache[lastForecast.key] =
                      [present |-> TRUE, ts |-> lastForecast.at,
                       df |-> lastForecast.df]
                /\ lastForecast.df.made_at = lastForecast.at
          /\ lastForecast.status = "failed" =>
                forecast_cache[lastForecast.key] = lastForecast.before

C18_Witness ==
    /\ lastForecast.status = "generated"
    /\ lastForecast.before.present
    /\ EntryAge = 600
    /\ forecast_cache[lastForecast.key].ts = lastForecast.at
    /\ \E k \in ForecastKeys :
          /\ k # lastForecast.key
          /\ forecast_cache[k].present

-----------------------------------------------------------------------------
(* Claims about the predictor (SpecCalls)                                  *)

\* C19: predict_overall_hazard never raises; it returns "Unknown" when no
\* model artifact was loaded, when no feature list could be determined, when
\* the class id predicted has no name and whenever the preparation of the
\* features or the inference throws; otherwise it returns the decoded name.
C19_PredictorNeverRaises ==
    (call.fn = "predict_overall_hazard" /\ result.returned) =>
        LET a == call.args.artifacts
            x == call.args.input_data
            id == x.label_id
            decoded == a.encoder_file = "ok" /\ id \in 0..(Len(EncoderClasses) - 1)
            named == id \in 0..5 \/ decoded
            unknown == \/ a.model_file # "ok"
                       \/ a.features_from = "file_corrupt"
                       \/ a.encoder_file = "corrupt"
                       \/ a.features_from = "none"
                       \/ x.prepare_throws
                       \/ x.inference_throws
                       \/ ~named
        IN  /\ ~result.value.raised
            /\ unknown => result.value.value = "Unknown"
            /\ ~unknown =>
                  result.value.value =
                      IF decoded
                      THEN EncoderClasses[id + 1]
                      ELSE DEFAULT_MAP[id + 1]

C19_Witness ==
    /\ call.fn = "predict_overall_hazard" /\ result.returned
    /\ call.args.artifacts.model_file = "ok"
    /\ call.args.artifacts.features_from = "model"
    /\ ~call.args.input_data.prepare_throws
    /\ call.args.artifacts.encoder_file = "ok"
    /\ call.args.input_data.inference_throws
    /\ result.value = Value("Unknown")

-----------------------------------------------------------------------------
(* Claims about the collector (SpecCollector)                              *)

FeedNames == {"owm", "nowcast", "flood", "earthquake"}

FailedFeeds(feeds) == {k \in FeedNames : feeds[k] = "fail"}

\* The fields of the failed feeds hold their defaults
DefaultsOfFailed(r, feeds) ==
    /\ feeds.owm = "fail" =>
          /\ r.temperature = -990 /\ r.humidity = -1
          /\ r.pressure = -1 /\ r.wind_speed = 0
    /\ feeds.nowcast = "fail" =>
          r.gust6 = 0 /\ r.precip6 = 0 /\ r.precip24 = 0
    /\ feeds.flood = "fail" => r.river_discharge = -100
    /\ feeds.earthquake = "fail" => r.eq_mag = -100 /\ r.eq_dist = -100

\* The five labels are those of the fields of the reading
LabelsComputed(r, feeds) ==
    /\ r.rain_label = label_rain(r.precip6, r.precip24)
    /\ r.wind_label = label_wind(r.gust6)
    /\ r.storm_label =
          label_storm(r.gust6, r.precip6, r.precip24, r.wind_speed, r.pressure,
                      IF feeds.owm = "fail" THEN "" ELSE OwmData.description)
    /\ r.flood_label = label_flood(r.river_discharge)
    /\ r.earthquake_label = label_earthquake(r.eq_mag, r.eq_dist)

\* The cycle holds a reading of location i with the defaults of the feeds
\* that failed and the labels computed from its fields
HasReading(i) ==
    \E k \in 1..Len(csv_buffer) :
        /\ csv_buffer[k].location = i
        /\ DefaultsOfFailed(csv_buffer[k], fetched[i])
        /\ LabelsComputed(csv_buffer[k], fetched[i])

\* C20: when the fetch of any one upstream feed (current weather, now-cast,
\* flood forecast or earthquake catalogue) fails for a location, the
\* collector still produces a reading for that location in that cycle, with
\* the fields of the failed feed at their defaults and the five labels
\* computed from them.
C20_ReadingDespiteFeedFailure ==
    \A i \in 1..Len(fetched) :
        Cardinality(FailedFeeds(fetched[i])) = 1 => HasReading(i)

-----------------------------------------------------------------------------
(* Claims about the cleaning and the labelers (SpecCalls)                  *)

NumericFields ==
    {"temperature", "humidity", "pressure", "wind_speed", "precip6",
     "precip24", "gust6", "river_discharge", "eq_mag", "eq_dist"}

\* C21: preprocess_value never raises: for None and for any value that
\* cannot be parsed as a number it returns the default, otherwise the value
\* rounded to the precision; hence every numeric field of a reading built by
\* process_single_location is present and is a number.
C21_PreprocessNeverRaises ==
    /\ (call.fn = "preprocess_value" /\ result.returned) =>
          /\ ~result.value.raised
          /\ call.args.val.kind \in {"none", "unparsable"} =>
                result.value = Num(call.args.default)
          /\ call.args.val.kind = "number" =>
                result.value = Num(RoundTo(call.args.val.v, call.args.precision))
    /\ (call.fn = "process_single_location" /\ result.returned) =>
          /\ ~result.value.raised
          /\ result.value.produced =>
                \A f \in NumericFields :
                    /\ f \in DOMAIN result.value.flat_data
                    /\ result.value.flat_data[f] \in Int

Labelled(fn) == call.fn = fn /\ result.returned

\* The label is not below the one returned
NotBelow(label) == RISK_ORDER[label] >= RISK_ORDER[result.value]

\* C22: each labeler is monotone in the order no < low < mid < mid-high <
\* high: with the other arguments fixed, label_rain never decreases as p6 or
\* p24 increases, label_wind as gust6 increases, label_storm as gust6, p6 or
\* p24 increases, label_flood as the river discharge increases, and
\* label_earthquake as the magnitude increases.
C22_LabelersMonotone ==
    /\ Labelled("label_rain") =>
          /\ \A a \in Grid.p6 : a >= call.args.p6 =>
                NotBelow(label_rain(a, call.args.p24))
          /\ \A b \in Grid.p24 : b >= call.args.p24 =>
                NotBelow(label_rain(call.args.p6, b))
    /\ Labelled("label_wind") =>
          \A g \in Grid.gust6 : g >= call.args.gust6 => NotBelow(label_wind(g))
    /\ Labelled("label_storm") =>
          /\ \A g \in Grid.gust6 : g >= call.args.gust6 =>
                NotBelow(label_storm(g, call.args.p6, call.args.p24,
                                     call.args.wind, call.args.pressure,
                                     call.args.weather_desc))
          /\ \A a \in Grid.p6 : a >= call.args.p6 =>
                NotBelow(label_storm(call.args.gust6, a, call.args.p24,
                                     call.args.wind, call.args.pressure,
                                     call.args.weather_desc))
          /\ \A b \in Grid.p24 : b >= call.args.p24 =>
                NotBelow(label_storm(call.args.gust6, call.args.p6, b,
                                     call.args.wind, call.args.pressure,
                                     call.args.weather_desc))
    /\ Labelled("label_flood") =>
          \A r \in Grid.river : r >= call.args.river => NotBelow(label_flood(r))
    /\ Labelled("label_earthquake") =>
          \A a \in Grid.mag : a >= call.args.mag =>
                NotBelow(label_earthquake(a, call.args.dist))

\* A gust between two thresholds was labelled mid-high, and a larger gust of
\* the grid is labelled high
C22_Witness ==
    /\ Labelled("label_wind")
    /\ call.args.gust6 = 1801
    /\ result.value = "mid-high"
    /\ label_wind(2501) = "high"

\* C23: label_flood(-1.0) is "no", and label_earthquake(mag, dist) is "no"
\* whenever mag = -1.0 or dist = -1.0, for every value of the other argument.
C23_SentinelsAbsorbed ==
    /\ (Labelled("label_flood") /\ call.args.river = -100) =>
          result.value = "no"
    /\ (Labelled("label_earthquake")
            /\ (call.args.mag = -100 \/ call.args.dist = -100)) =>
          result.value = "no"

\* A strong earthquake of missing distance was labelled
C23_Witness ==
    /\ Labelled("label_earthquake")
    /\ call.args.mag = 700 /\ call.args.dist = -100
    /\ result.value = "no"

\* The sub-scores of the storm score, as the claim states them
GustScore(gust6) ==
    IF gust6 > 2500 THEN 4 ELSE IF gust6 > 1800 THEN 3
    ELSE IF gust6 > 1200 THEN 2 ELSE IF gust6 > 800 THEN 1 ELSE 0

PressureScore(pressure) ==
    LET pres == IF pressure = -1 THEN 1013 ELSE pressure
    IN  IF pres < 990 THEN 4 ELSE IF pres < 995 THEN 3
        ELSE IF pres < 1000 THEN 2 ELSE 0

TextBonus(weather_desc) ==
    IF Contains(Chars("thunderstorm"), Chars(weather_desc)) THEN 2
    ELSE IF Contains(Chars("heavy"), Chars(weather_desc)) THEN 1 ELSE 0

StormScore(a) ==
    GustScore(a.gust6) + RISK_ORDER[label_rain(a.p6, a.p24)]
        + PressureScore(a.pressure) + TextBonus(a.weather_desc)

\* C30: the score of label_storm is the sum of the gust sub-score, the
\* ordinal of label_rain(p6, p24), the pressure sub-score (a pressure of -1.0
\* counted as 1013) and the text bonus; the label is high at a score >= 12,
\* mid-high at >= 9, mid at >= 6, low at >= 3, else no; with the pressure
\* missing the label is never high.
C30_StormScore ==
    Labelled("label_storm") =>
        /\ result.value =
              (IF StormScore(call.args) >= 12 THEN "high"
               ELSE IF StormScore(call.args) >= 9 THEN "mid-high"
               ELSE IF StormScore(call.args) >= 6 THEN "mid"
               ELSE IF StormScore(call.args) >= 3 THEN "low"
               ELSE "no")
        /\ call.args.pressure = -1 => result.value # "high"

\* The strongest gust, rain and description with the pressure missing
C30_Witness ==
    /\ Labelled("label_storm")
    /\ call.args.pressure = -1
    /\ call.args.gust6 = 2501 /\ call.args.p6 = 4001
    /\ call.args.weather_desc = "thunderstorm"
    /\ result.value = "mid-high"

-----------------------------------------------------------------------------
(* Claims about the polygon (SpecCalls)                                    *)

\* C24: create_geo_polygon(lat, lon, radius, N) returns a single ring of
\* N + 1 vertices in [lon, lat] order whose first and last vertices are
\* identical; for radius = 0 every vertex equals [lon, lat].
C24_RingClosed ==
    (call.fn = "create_geo_polygon" /\ result.returned) =>
        LET a == call.args
            ring == result.value.ring
        IN  /\ ~result.value.raised
            /\ Len(ring) = a.num_points + 1
            /\ ring[1][1].main = a.lon
            /\ ring[1] = ring[Len(ring)]
            /\ a.radius_meters = 0 =>
                  \A i \in 1..Len(ring) : ring[i] = <<Exact(a.lon), Exact(a.lat)>>

-----------------------------------------------------------------------------
(* Further claims about the alert queries (SpecAlerts)                     *)

\* C25: the national list of all(lat, lon, limit, category) is the list that
\* national(limit = 20, no severity filter, category) returns for the same
\* snapshot: the 20 alerts of that category of highest priority, none
\* dropped for its severity; it is not empty when the snapshot holds an alert
\* of that category.
C25_NationalOfAllIsNational ==
    request.op = "all" =>
        LET national == get_national_alerts(snapshot, ALL_NATIONAL_LIMIT, "None",
                                            request.category, CurrentHour).data
        IN  /\ response.national = national
            /\ national # <<>> => response.national # <<>>

\* C26: every zone a pass publishes has a risk level among Info, No, Low, Mid,
\* Mid-high and High, whatever the five labels of the reading are, and every
\* alert derived from it has severity low, a should_notify flag that is false
\* at every distance, and a severity score of 30 in its priority.
PublishedLevels == {"Info", "No", "Low", "Mid", "Mid-high", "High"}

C26_PublishedZonesAreLow ==
    (call.fn = "publish_row" /\ result.returned) =>
        /\ \A l \in PublishedLevels :
              map_risk_level_to_severity(l) \notin {"high", "medium"}
        /\ \A off \in PublishOffsets :
              /\ result.value[off].feature.risk_level \in PublishedLevels
              /\ Len(result.value[off].nearby) = 1
              /\ \A i \in 1..Len(result.value[off].nearby) :
                    /\ result.value[off].nearby[i].severity = "low"
                    /\ ~result.value[off].nearby[i].should_notify
                    /\ severity_map(result.value[off].nearby[i].severity) = 30

\* A reading whose predicted hazard is labelled high is published 5.0 km
\* from the user.
C26_Witness ==
    /\ call.fn = "publish_row" /\ result.returned
    /\ call.args.predicted = "Flood" /\ call.args.raw_data.flood_label = "high"
    /\ result.value[449].feature.risk_level = "High"
    /\ Len(result.value[449].nearby) = 1
    /\ result.value[449].nearby[1].has_distance
    /\ result.value[449].nearby[1].distance_km = 50

-----------------------------------------------------------------------------
(* Claims about the WebSocket hub (SpecSockets)                            *)

\* C28: while at least one WebSocket connection of a user is open, the
\* manager holds a registration for that user, and a broadcast reaches an
\* open connection of every such user; also after the same user id connected
\* twice and the first connection went away.
C28_OpenUserIsRegistered ==
    \A u \in UserIds :
        (\E w \in WebSockets : sockets[w] = u) =>
            /\ active_connections[u] # "none"
            /\ sockets[active_connections[u]] = u

-----------------------------------------------------------------------------
(* Claims about triggers that arrive during a pass (SpecOverlap)           *)

\* The snapshots a pass can write from the tables of the cycle
CycleOutputs ==
    { [i \in 1..Len(rs) |-> BuildFeature(rs[i])] :
        rs \in {SelectWeatherEvents(tbl, CurrentHour) : tbl \in CycleTables} }

\* C27: at most one pass has the snapshot file open for writing at any time,
\* also when a second trigger arrives while a pass is running; and once two
\* such passes have both completed, the file is one complete snapshot, the
\* output of one of them.
C27_OnePassWritesAtATime ==
    /\ Cardinality({p \in Passes : pc[p] = "write"}) <= 1
    /\ (\A p \in Passes : pc[p] = "completed") =>
            /\ IsCompleteDump(file.chunks)
            /\ ParsedFeatures(file.chunks) \in CycleOutputs

-----------------------------------------------------------------------------
(* Claims about the active risks (SpecCalls)                               *)

\* The rows get_active_risks fetched: the matching rows, or the first
\* 2 * limit of them when no position is given
Fetched(args) ==
    IF args.position_given THEN args.matching
    ELSE Take(args.matching, 2 * args.limit)

\* C29: get_active_risks returns at most one event per (title, overall
\* hazard prediction), for each the one with the latest event_time among
\* the rows fetched, in descending order of event_time, at most limit of
\* them; and an empty list on a database error.
C29_ActiveRisksDeduplicated ==
    (call.fn = "get_active_risks" /\ result.returned) =>
        LET events == result.value
            got == Fetched(call.args)
        IN  /\ \A i, j \in 1..Len(events) :
                  (/\ events[i].title = events[j].title
                   /\ HazardOfRow(events[i]) = HazardOfRow(events[j])) => i = j
            /\ \A i \in 1..Len(events) :
                  /\ events[i] \in Range(got)
                  /\ \A k \in 1..Len(got) :
                        (/\ got[k].title = events[i].title
                         /\ HazardOfRow(got[k]) = HazardOfRow(events[i]))
                            => got[k].event_time <= events[i].event_time
            /\ \A i, j \in 1..Len(events) :
                  i < j => events[i].event_time >= events[j].event_time
            /\ Len(events) <= call.args.limit
            /\ call.args.db # "ok" => events = <<>>

\* Four rows match, the third an earlier reading of the place and hazard of
\* the first; two events are returned, the limit.
C29_Witness ==
    /\ call.fn = "get_active_risks" /\ result.returned
    /\ call.args.db = "ok" /\ call.args.limit = 2
    /\ Len(call.args.matching) = 4
    /\ call.args.matching[3].title = call.args.matching[1].title
    /\ HazardOfRow(call.args.matching[3]) = HazardOfRow(call.args.matching[1])
    /\ call.args.matching[3].event_time < call.args.matching[1].event_time
    /\ Len(result.value) = 2
    /\ result.value[1].id = 1 /\ result.value[2].id = 2
====
